---- MODULE Spec2Model ----
(***************************************************************************)
(* A model of mdscraper (src/mdscraper/core/scraper.py, class MdScraper):  *)
(* the content locator, the content editor, the filename strategy and the  *)
(* batch orchestrator.                                                     *)
(*                                                                         *)
(* Strings are sequences of one-character strings, so that prefixes,       *)
(* replacements and splits are computed and not assumed.  A parsed         *)
(* document is the sequence of its nodes in document order (preorder),     *)
(* each node carrying its depth: the subtree of a node is the run of       *)
(* deeper nodes that follows it.                                           *)
(***************************************************************************)
EXTENDS Integers, Sequences, FiniteSets, TLC

VARIABLES
    options,        \* MdScraper.options
    url_list,       \* process_url_list: the URLs of the batch
    idx,            \* process_url_list: position of the loop in url_list
    success_count,  \* process_url_list: local counter
    failure_count,  \* process_url_list: local counter
    soup,           \* the parsed document in hand ([parsed, nodes])
    content,        \* index in soup.nodes of the content container, 0 = None
    title,          \* _fetch_content: the extracted page title
    markdown,       \* fetch_content's result, <<>> standing for None
    files,          \* the file system: path -> text written
    dirs,           \* the directories created by os.makedirs
    log,            \* the calls made so far (fetches, conversions, saves, returns)
    pc,             \* position of the running operation
    call,           \* arguments of a function applied on its own
    ret             \* its result

vars == <<options, url_list, idx, success_count, failure_count, soup, content,
          title, markdown, files, dirs, log, pc, call, ret>>

batchVars == <<url_list, idx, success_count, failure_count>>

pageVars == <<title, markdown>>

diskVars == <<files, dirs, log>>

callVars == <<call, ret>>

(***************************************************************************)
(* Bounds                                                                  *)
(***************************************************************************)
MaxNodes == 3
MaxDepth == 3
MaxPathLen == 4
MaxRootLen == 2
MaxUrls == 2
MaxBatches == 2
MaxLines == 3
MaxEditNodes == 3
MaxMdLines == 4
MaxLevelLen == 3
MaxAnchors == 3

(***************************************************************************)
(* Generic sequence helpers                                                *)
(***************************************************************************)
Range(s) == {s[i] : i \in 1..Len(s)}

Min(S) == CHOOSE x \in S : \A y \in S : x <= y

Max(S) == CHOOSE x \in S : \A y \in S : x >= y

RECURSIVE Flatten(_)
Flatten(ss) == IF ss = <<>> THEN <<>> ELSE Head(ss) \o Flatten(Tail(ss))

\* the increasing enumeration of a finite set of integers
RECURSIVE SortedSeq(_)
SortedSeq(S) == IF S = {} THEN <<>> ELSE <<Min(S)>> \o SortedSeq(S \ {Min(S)})

(***************************************************************************)
(* Documents                                                               *)
(***************************************************************************)
NoUrl == [base |-> "", path |-> <<>>, rest |-> ""]

\* None where a URL string is expected (the parser's default of --root-url)
NoneUrl == [base |-> "None", path |-> <<>>, rest |-> ""]

\* an element <tag> at depth d without attributes
E(tag, d) ==
    [tag |-> tag, depth |-> d, id |-> "", idu |-> "", class |-> {},
     text |-> <<>>, has_href |-> FALSE, href |-> NoUrl, alt |-> <<>>]

\* a text node
T(txt, d) == [E("#text", d) EXCEPT !.text = txt]

NoSoup == [parsed |-> FALSE, nodes |-> <<>>]

Parsed(nodes) == [parsed |-> TRUE, nodes |-> nodes]

\* depth of node i, the document itself being node 0 at depth 0
DepthOf(nodes, i) == IF i = 0 THEN 0 ELSE nodes[i].depth

\* last index of the subtree rooted at node i
SubtreeEnd(nodes, i) ==
    LET stop == {j \in (i+1)..Len(nodes) : nodes[j].depth <= DepthOf(nodes, i)}
    IN  IF stop = {} THEN Len(nodes) ELSE Min(stop) - 1

Descendants(nodes, i) == (i+1)..SubtreeEnd(nodes, i)

IsAncestor(nodes, a, i) == a < i /\ i \in Descendants(nodes, a)

\* Tag.find_all(name): the descendants of node i with that tag, in document order
find_all(nodes, i, tag) ==
    SortedSeq({j \in Descendants(nodes, i) : nodes[j].tag = tag})

\* Tag.get_text(): the text of node i and of everything below it
get_text(nodes, i) ==
    Flatten([k \in 1..(SubtreeEnd(nodes, i) - i + 1) |->
                IF i + k - 1 = 0 THEN <<>> ELSE nodes[i + k - 1].text])

VoidTags == {"#text", "img"}

\* a node sequence is a document when depths describe a tree and void
\* elements have no children
WellFormed(nodes) ==
    \A i \in 1..Len(nodes) :
        /\ nodes[i].depth >= 1
        /\ nodes[i].depth <= (IF i = 1 THEN 1 ELSE nodes[i-1].depth + 1)
        /\ (i > 1 /\ nodes[i].depth = nodes[i-1].depth + 1)
              => nodes[i-1].tag \notin VoidTags

\* all documents of at most n nodes built from the node kinds (depth set per node)
RECURSIVE DocsOver(_, _, _)
DocsOver(kinds, n, maxd) ==
    IF n = 0 THEN {<<>>}
    ELSE LET shorter == DocsOver(kinds, n - 1, maxd)
         IN  shorter \cup
             {x \in {Append(d, [k EXCEPT !.depth = dep]) :
                        d \in {y \in shorter : Len(y) = n - 1},
                        k \in kinds, dep \in 1..maxd} : WellFormed(x)}

(***************************************************************************)
(* Options                                                                 *)
(***************************************************************************)
\* MdScraper.DefaultOptions.default_content_names
DefaultContentNames ==
    <<"article_content", "content", "article-content", "article",
      "main-content", "main", "post-content", "entry-content",
      "blog-content", "body-content">>

\* MdScraper.DefaultOptions, with the "content" key the locator reads
DefaultOptions ==
    [debug |-> FALSE,
     verbose |-> 0,
     no_images |-> FALSE,
     no_links |-> FALSE,
     prepend_source_link |-> FALSE,
     outdir |-> <<>>,
     output |-> <<"%TITLE">>,
     extra_heading_space |-> <<>>,
     root_url |-> NoUrl,
     exclude_pages |-> <<>>,
     exclude_selectors |-> <<>>,
     content |-> <<>>,
     default_content_names |-> DefaultContentNames]

(***************************************************************************)
(* Content locator                                                         *)
(***************************************************************************)
\* soup.find('div', class_=name): first <div> one of whose classes is name
FindDivByClass(nodes, name) ==
    LET hit == {j \in 1..Len(nodes) :
                   nodes[j].tag = "div" /\ name \in nodes[j].class}
    IN  IF hit = {} THEN 0 ELSE Min(hit)

\* soup.find('div', id_=name): bs4 reads the keyword as an attribute that is
\* literally called "id_"
FindDivByIdUnderscore(nodes, name) ==
    LET hit == {j \in 1..Len(nodes) :
                   nodes[j].tag = "div" /\ nodes[j].idu = name}
    IN  IF hit = {} THEN 0 ELSE Min(hit)

\* the id loop running over the elements of every tag
FindDivById_any_tag(nodes, name) ==
    LET hit == {j \in 1..Len(nodes) :
                   nodes[j].tag # "#text" /\ nodes[j].id = name}
    IN  IF hit = {} THEN 0 ELSE Min(hit)

\* the loop over soup.find_all('div') comparing div.get('id') with name
FindDivById(nodes, name) ==
    LET hit == {j \in 1..Len(nodes) :
                   nodes[j].tag = "div" /\ nodes[j].id = name}
    IN  IF hit = {} THEN 0 ELSE Min(hit)

\* the body of the loop of find_content_by_div_attr for one content_name
FindOneName(nodes, attr, name) ==
    IF attr = "class" THEN FindDivByClass(nodes, name)
    ELSE IF FindDivById(nodes, name) # 0 THEN FindDivById(nodes, name)
    ELSE FindDivByIdUnderscore(nodes, name)

\* MdScraper.find_content_by_div_attr: names tried in list order, the loop
\* breaks at the first name with a match
RECURSIVE find_content_by_div_attr(_, _, _)
find_content_by_div_attr(nodes, attr, filter_list) ==
    IF filter_list = <<>> THEN 0
    ELSE IF FindOneName(nodes, attr, Head(filter_list)) # 0
         THEN FindOneName(nodes, attr, Head(filter_list))
         ELSE find_content_by_div_attr(nodes, attr, Tail(filter_list))

\* soup.find('article')
FindArticle(nodes) ==
    LET hit == {j \in 1..Len(nodes) : nodes[j].tag = "article"}
    IN  IF hit = {} THEN 0 ELSE Min(hit)

\* the largest div with the last of several longest divs taken
LargestDiv_last_of_ties(nodes) ==
    LET divs == {j \in 1..Len(nodes) : nodes[j].tag = "div"}
        best == {j \in divs : \A k \in divs :
                    Len(get_text(nodes, j)) >= Len(get_text(nodes, k))}
    IN  IF divs = {} THEN 0 ELSE Max(best)

\* sorted(divs, key=len(get_text()), reverse=True)[0]: the sort is stable, so
\* the first div in document order among those of greatest text length
LargestDiv(nodes) ==
    LET divs == {j \in 1..Len(nodes) : nodes[j].tag = "div"}
        best == {j \in divs : \A k \in divs :
                    Len(get_text(nodes, j)) >= Len(get_text(nodes, k))}
    IN  IF divs = {} THEN 0 ELSE Min(best)

\* find_content_container with the <article> step tried before the name steps
find_content_container_article_first(sp, opts) ==
    IF ~sp.parsed THEN 0
    ELSE
    LET nodes == sp.nodes
        c0 == FindArticle(nodes)
        c1 == IF c0 = 0 /\ opts.content # <<>>
              THEN find_content_by_div_attr(nodes, "id", opts.content)
              ELSE c0
        c2 == IF opts.content # <<>> /\ c1 = 0
              THEN find_content_by_div_attr(nodes, "class", opts.content)
              ELSE c1
        c3 == IF c2 = 0
              THEN find_content_by_div_attr(nodes, "id", opts.default_content_names)
              ELSE c2
        c4 == IF c3 = 0
              THEN find_content_by_div_attr(nodes, "class", opts.default_content_names)
              ELSE c3
        c6 == IF c4 = 0 THEN LargestDiv(nodes) ELSE c4
    IN  c6

\* MdScraper.find_content_container
find_content_container(sp, opts) ==
    IF ~sp.parsed THEN 0
    ELSE
    LET nodes == sp.nodes
        c1 == IF opts.content # <<>>
              THEN find_content_by_div_attr(nodes, "id", opts.content)
              ELSE 0
        c2 == IF opts.content # <<>> /\ c1 = 0
              THEN find_content_by_div_attr(nodes, "class", opts.content)
              ELSE c1
        c3 == IF c2 = 0
              THEN find_content_by_div_attr(nodes, "id", opts.default_content_names)
              ELSE c2
        c4 == IF c3 = 0
              THEN find_content_by_div_attr(nodes, "class", opts.default_content_names)
              ELSE c3
        c5 == IF c4 = 0 THEN FindArticle(nodes) ELSE c4
        c6 == IF c5 = 0 THEN LargestDiv(nodes) ELSE c5
    IN  c6

(***************************************************************************)
(* Strings                                                                 *)
(***************************************************************************)
Whitespace == {" ", "\n"}

IsBlank(str) == \A i \in 1..Len(str) : str[i] \in Whitespace

\* str.startswith(prefix)
StartsWith(str, prefix) ==
    Len(prefix) <= Len(str) /\ SubSeq(str, 1, Len(prefix)) = prefix

\* str.replace(old, ''): every non-overlapping occurrence of old, scanning
\* from the left, is removed; an empty old leaves the string as it is
RECURSIVE RemoveAll(_, _)
RemoveAll(str, old) ==
    IF old = <<>> \/ str = <<>> THEN str
    ELSE IF StartsWith(str, old)
         THEN RemoveAll(SubSeq(str, Len(old) + 1, Len(str)), old)
         ELSE <<Head(str)>> \o RemoveAll(Tail(str), old)

\* str.split(sep) for a one-character separator
RECURSIVE Split(_, _)
Split(str, sep) ==
    LET at == {i \in 1..Len(str) : str[i] = sep}
    IN  IF at = {} THEN <<str>>
        ELSE <<SubSeq(str, 1, Min(at) - 1)>> \o
             Split(SubSeq(str, Min(at) + 1, Len(str)), sep)

Last(s) == s[Len(s)]

\* urlparse(url).path: a URL is held parsed, [base, path, rest], base being
\* scheme and host and rest being query and fragment
UrlPath(url) == url.path

\* the URL written out as text
UrlStr(url) ==
    (IF url.base = "" THEN <<>> ELSE <<url.base>>) \o url.path \o
    (IF url.rest = "" THEN <<>> ELSE <<url.rest>>)

\* truth value of a URL option: a non-empty string (None is false)
UrlSet(url) == url # NoneUrl /\ UrlStr(url) # <<>>

(***************************************************************************)
(* Content editor                                                          *)
(***************************************************************************)
\* the nodes at the positions that are not in drop
KeepExcept(nodes, drop) ==
    LET keep == SortedSeq((1..Len(nodes)) \ drop)
    IN  [k \in 1..Len(keep) |-> nodes[keep[k]]]

\* the positions of the subtrees rooted at the nodes of roots
Subtrees(nodes, roots) ==
    UNION {i..SubtreeEnd(nodes, i) : i \in roots}

\* get_text(strip=True) is empty: every string below the node is blank
TextIsBlank(nodes, i) == IsBlank(get_text(nodes, i))

\* MdScraper.remove_images: every <img> below the content is decomposed,
\* then every <p> below it whose stripped text is empty
remove_images_direct_children(nodes, c) ==
    LET imgs == {j \in Descendants(nodes, c) :
                    nodes[j].tag = "img" /\ nodes[j].depth = nodes[c].depth + 1}
        n1   == KeepExcept(nodes, Subtrees(nodes, imgs))
        ps   == {j \in Descendants(n1, c) :
                    n1[j].tag = "p" /\ TextIsBlank(n1, j)}
    IN  KeepExcept(n1, Subtrees(n1, ps))

remove_images(nodes, c) ==
    LET imgs == {j \in Descendants(nodes, c) : nodes[j].tag = "img"}
        n1   == KeepExcept(nodes, Subtrees(nodes, imgs))
        ps   == {j \in Descendants(n1, c) :
                    n1[j].tag = "p" /\ TextIsBlank(n1, j)}
    IN  KeepExcept(n1, Subtrees(n1, ps))

\* MdScraper.remove_links: each <a> below the content is replaced by a string
\* holding its text; an anchor inside a replaced anchor leaves with it
remove_links_decompose(nodes, c) ==
    LET as == {j \in Descendants(nodes, c) : nodes[j].tag = "a"}
    IN  KeepExcept(nodes, Subtrees(nodes, as))

\* remove_links that only finds the anchors carrying an href
RECURSIVE remove_links_href_only(_, _)
remove_links_href_only(nodes, c) ==
    LET as == {j \in Descendants(nodes, c) : nodes[j].tag = "a" /\ nodes[j].has_href}
    IN  IF as = {} THEN nodes
        ELSE LET a == Min(as)
                 e == SubtreeEnd(nodes, a)
             IN  remove_links_href_only(
                    SubSeq(nodes, 1, a - 1)
                       \o <<T(get_text(nodes, a), nodes[a].depth)>>
                       \o SubSeq(nodes, e + 1, Len(nodes)), c)

RECURSIVE remove_links(_, _)
remove_links(nodes, c) ==
    LET as == {j \in Descendants(nodes, c) : nodes[j].tag = "a"}
    IN  IF as = {} THEN nodes
        ELSE LET a == Min(as)
                 e == SubtreeEnd(nodes, a)
             IN  remove_links(
                    SubSeq(nodes, 1, a - 1)
                       \o <<T(get_text(nodes, a), nodes[a].depth)>>
                       \o SubSeq(nodes, e + 1, Len(nodes)), c)

\* a selector is a tag name, a class name or both; Tag.select matches the
\* elements below the content
Matches(node, sel) ==
    /\ node.tag # "#text"
    /\ sel.tag = "" \/ node.tag = sel.tag
    /\ sel.class = "" \/ sel.class \in node.class

\* MdScraper.process_exclude_selectors: selector after selector, every match
\* of the selector in the tree as it then is gets decomposed
RECURSIVE ExcludeEach(_, _, _)
ExcludeEach(nodes, c, selectors) ==
    IF selectors = <<>> THEN nodes
    ELSE LET hit == {j \in Descendants(nodes, c) :
                        Matches(nodes[j], Head(selectors))}
         IN  ExcludeEach(KeepExcept(nodes, Subtrees(nodes, hit)), c,
                         Tail(selectors))

process_exclude_selectors(nodes, c, opts) ==
    ExcludeEach(nodes, c, opts.exclude_selectors)

\* MdScraper.get_relative_url_path
get_relative_url_path(url, opts) ==
    IF UrlSet(opts.root_url)
    THEN LET root_path == UrlPath(opts.root_url)
             url_path  == UrlPath(url)
             new_url   == RemoveAll(url_path, root_path)
         IN  IF new_url # url_path
             THEN [base |-> "", path |-> new_url, rest |-> ""]
             ELSE url
    ELSE url

\* the loop of make_urls_relative over the anchors from position k on:
\* anchor['href'] raises KeyError at the first anchor without an href, the
\* anchors before it having been rewritten already
RECURSIVE RelativizeFrom(_, _, _)
RelativizeFrom(nodes, anchors, opts) ==
    IF anchors = <<>> THEN [raised |-> FALSE, nodes |-> nodes]
    ELSE LET a == Head(anchors)
         IN  IF ~nodes[a].has_href
             THEN [raised |-> TRUE, nodes |-> nodes]
             ELSE RelativizeFrom(
                     [nodes EXCEPT ![a].href =
                         get_relative_url_path(nodes[a].href, opts)],
                     Tail(anchors), opts)

\* MdScraper.make_urls_relative
make_urls_relative(nodes, c, opts) ==
    IF UrlSet(opts.root_url)
    THEN RelativizeFrom(nodes, find_all(nodes, c, "a"), opts)
    ELSE [raised |-> FALSE, nodes |-> nodes]

\* _fetch_content, lines 455-458: the link step
LinkStep_root_url_first(nodes, c, opts) ==
    IF UrlSet(opts.root_url)
    THEN make_urls_relative(nodes, c, opts)
    ELSE IF opts.no_links
    THEN [raised |-> FALSE, nodes |-> remove_links(nodes, c)]
    ELSE [raised |-> FALSE, nodes |-> nodes]

LinkStep(nodes, c, opts) ==
    IF opts.no_links
    THEN [raised |-> FALSE, nodes |-> remove_links(nodes, c)]
    ELSE make_urls_relative(nodes, c, opts)

\* _fetch_content, lines 452-453: the image step
ImageStep(nodes, c, opts) ==
    IF opts.no_images THEN remove_images(nodes, c) ELSE nodes

(***************************************************************************)
(* Title and Markdown                                                      *)
(***************************************************************************)
\* re.sub(r'\s+', ' ', text): each run of whitespace becomes one space
RECURSIVE CollapseWhitespace(_)
CollapseWhitespace(str) ==
    IF str = <<>> THEN <<>>
    ELSE IF Head(str) \in Whitespace
         THEN IF Len(str) > 1 /\ str[2] \in Whitespace
              THEN CollapseWhitespace(Tail(str))
              ELSE <<" ">> \o CollapseWhitespace(Tail(str))
         ELSE <<Head(str)>> \o CollapseWhitespace(Tail(str))

\* str.strip()
Strip(str) ==
    LET solid == {i \in 1..Len(str) : str[i] \notin Whitespace}
    IN  IF solid = {} THEN <<>> ELSE SubSeq(str, Min(solid), Max(solid))

\* utils.clean_text; the text of the model has no character references, on
\* which alone html.unescape acts
clean_text(text) ==
    IF text = <<>> THEN <<>> ELSE Strip(CollapseWhitespace(text))

\* soup.find(tag) over the whole document
FindTag(nodes, tag) ==
    LET hit == {j \in 1..Len(nodes) : nodes[j].tag = tag}
    IN  IF hit = {} THEN 0 ELSE Min(hit)

\* MdScraper.extract_page_title
extract_page_title(nodes) ==
    LET title_element == IF FindTag(nodes, "h1") # 0 THEN FindTag(nodes, "h1")
                         ELSE FindTag(nodes, "title")
    IN  IF title_element # 0 THEN clean_text(get_text(nodes, title_element))
        ELSE <<"Webpage">>

\* the children of node i, in document order
Children(nodes, i) ==
    SortedSeq({j \in Descendants(nodes, i) :
                  nodes[j].depth = DepthOf(nodes, i) + 1})

\* markdownify(html, heading_style="ATX"), the external converter, on the
\* subtree of node i: text as it is, an image as ![alt](src), an anchor with
\* an href as [text](href), a paragraph and a heading followed by a blank
\* line, a heading introduced by its ATX marker
RECURSIVE md(_, _)
md(nodes, i) ==
    LET kids  == Children(nodes, i)
        inner == Flatten([k \in 1..Len(kids) |-> md(nodes, kids[k])])
        n     == nodes[i]
    IN  CASE n.tag = "#text" -> n.text
          [] n.tag = "img"   -> <<"!", "[">> \o n.alt \o <<"]", "(", "src", ")">>
          [] n.tag = "a"     ->
                IF Strip(inner) = <<>> THEN <<>>
                ELSE IF n.has_href
                     THEN <<"[">> \o inner \o <<"]", "(">> \o UrlStr(n.href) \o <<")">>
                     ELSE inner
          [] n.tag = "p"     ->
                IF Strip(inner) = <<>> THEN <<>> ELSE inner \o <<"\n", "\n">>
          [] n.tag = "h1"    -> <<"#", " ">> \o Strip(inner) \o <<"\n", "\n">>
          [] n.tag = "h2"    -> <<"#", "#", " ">> \o Strip(inner) \o <<"\n", "\n">>
          [] OTHER           -> inner

\* re.sub(r'\n{3,}', '\n\n', text)
RECURSIVE CollapseNewlines(_)
CollapseNewlines(str) ==
    IF str = <<>> THEN <<>>
    ELSE IF Head(str) # "\n" THEN <<Head(str)>> \o CollapseNewlines(Tail(str))
    ELSE LET other == {i \in 1..Len(str) : str[i] # "\n"}
             run   == IF other = {} THEN Len(str) ELSE Min(other) - 1
         IN  (IF run >= 3 THEN <<"\n", "\n">> ELSE SubSeq(str, 1, run))
                \o CollapseNewlines(SubSeq(str, run + 1, Len(str)))

\* re.sub(r'\n\s*?\n\s*?\n', '\n\n', text): the match ends at the third newline
RECURSIVE CollapseBlankLines_non_greedy(_)
CollapseBlankLines_non_greedy(str) ==
    IF str = <<>> THEN <<>>
    ELSE IF Head(str) # "\n"
         THEN <<Head(str)>> \o CollapseBlankLines_non_greedy(Tail(str))
    ELSE LET solid == {i \in 1..Len(str) : str[i] \notin Whitespace}
             run   == IF solid = {} THEN Len(str) ELSE Min(solid) - 1
             nls   == {i \in 1..run : str[i] = "\n"}
             third == Min({i \in nls : Cardinality({j \in nls : j <= i}) = 3})
         IN  IF Cardinality(nls) >= 3
             THEN <<"\n", "\n">> \o
                  CollapseBlankLines_non_greedy(SubSeq(str, third + 1, Len(str)))
             ELSE <<"\n">> \o CollapseBlankLines_non_greedy(Tail(str))

\* re.sub(r'\n\s*\n\s*\n', '\n\n', text): a match starts at a newline and,
\* \s* being greedy, runs to the last newline of the whitespace around it,
\* which must hold three newlines at least
RECURSIVE CollapseBlankLines(_)
CollapseBlankLines(str) ==
    IF str = <<>> THEN <<>>
    ELSE IF Head(str) # "\n" THEN <<Head(str)>> \o CollapseBlankLines(Tail(str))
    ELSE LET solid == {i \in 1..Len(str) : str[i] \notin Whitespace}
             run   == IF solid = {} THEN Len(str) ELSE Min(solid) - 1
             nls   == {i \in 1..run : str[i] = "\n"}
         IN  IF Cardinality(nls) >= 3
             THEN <<"\n", "\n">> \o
                  CollapseBlankLines(SubSeq(str, Max(nls) + 1, Len(str)))
             ELSE <<"\n">> \o CollapseBlankLines(Tail(str))

\* '\n'.join(lines)
RECURSIVE JoinLines(_)
JoinLines(lines) ==
    IF lines = <<>> THEN <<>>
    ELSE IF Len(lines) = 1 THEN lines[1]
    ELSE lines[1] \o <<"\n">> \o JoinLines(Tail(lines))

Digits == <<"0", "1", "2", "3", "4", "5", "6", "7", "8", "9">>

IsNumber(str) == str # <<>> /\ \A i \in 1..Len(str) : str[i] \in Range(Digits)

\* int(str) for a string of digits
RECURSIVE ParseInt(_)
ParseInt(str) ==
    IF str = <<>> THEN 0
    ELSE 10 * ParseInt(SubSeq(str, 1, Len(str) - 1))
            + (CHOOSE d \in 0..9 : Digits[d + 1] = Last(str))

\* int(str) succeeds: digits, with a sign before them or not
IsInt(str) ==
    str # <<>> /\ IF Head(str) \in {"+", "-"} THEN IsNumber(Tail(str))
                  ELSE IsNumber(str)

IntValue(str) ==
    IF Head(str) = "-" THEN 0 - ParseInt(Tail(str))
    ELSE IF Head(str) = "+" THEN ParseInt(Tail(str))
    ELSE ParseInt(str)

\* add_newlines_before_headings, lines 281-289: the heading levels selected
HeadingLevels(heading_levels) ==
    IF heading_levels = <<"a", "l", "l">> THEN 1..6
    ELSE LET items == {Strip(x) : x \in Range(Split(heading_levels, ","))} \ {<<>>}
         IN  IF \E x \in items : ~IsInt(x) THEN 1..6
             ELSE {IntValue(x) : x \in items} \cap (1..6)

\* '#' * level + ' '
HeadingMarker(level) == [k \in 1..(level + 1) |-> IF k <= level THEN "#" ELSE " "]

\* add_newlines_before_headings padding the heading lines of every level
add_newlines_before_headings_every_level(text, opts) ==
    LET levels == HeadingLevels(opts.extra_heading_space)
        lines  == Split(text, "\n")
        padded == [i \in 1..Len(lines) |->
                      IF i > 1 /\ \E l \in 1..6 :
                                    StartsWith(lines[i], HeadingMarker(l))
                      THEN <<"\n", "\n", "\n">> \o lines[i]
                      ELSE lines[i]]
    IN  IF levels = {} THEN text ELSE JoinLines(padded)

\* MdScraper.add_newlines_before_headings
add_newlines_before_headings(text, opts) ==
    LET levels == HeadingLevels(opts.extra_heading_space)
        lines  == Split(text, "\n")
        padded == [i \in 1..Len(lines) |->
                      IF i > 1 /\ \E l \in levels :
                                    StartsWith(lines[i], HeadingMarker(l))
                      THEN <<"\n", "\n", "\n">> \o lines[i]
                      ELSE lines[i]]
    IN  IF levels = {} THEN text ELSE JoinLines(padded)

\* html_to_markdown without the return of None for an empty conversion
html_to_markdown_keeps_empty(converted, ttl, source_url, opts) ==
    LET title_str == <<"#", " ">> \o ttl \o <<"\n", "\n">>
        m1 == IF ttl # <<>> /\ ~StartsWith(converted, title_str)
              THEN title_str \o converted ELSE converted
        m4 == CollapseNewlines(CollapseBlankLines(CollapseNewlines(m1)))
    IN  IF UrlSet(source_url)
        THEN <<"Source: <">> \o UrlStr(source_url) \o <<">", "\n", "\n">> \o m4
        ELSE m4

\* MdScraper.html_to_markdown; converted is md(html_str), a title of <<>>
\* and a source_url of NoUrl stand for None, and the result <<>> for None
\* html_to_markdown prepending the title whatever the text begins with
html_to_markdown_always_titles(converted, ttl, source_url, opts) ==
    IF converted = <<>> THEN <<>>
    ELSE
    LET title_str == <<"#", " ">> \o ttl \o <<"\n", "\n">>
        m1 == IF ttl # <<>> THEN title_str \o converted ELSE converted
        m2 == CollapseNewlines(m1)
        m3 == CollapseBlankLines(m2)
        m4 == IF opts.extra_heading_space # <<>>
              THEN add_newlines_before_headings(m3, opts)
              ELSE CollapseNewlines(m3)
    IN  IF UrlSet(source_url)
        THEN <<"Source: <">> \o UrlStr(source_url) \o <<">", "\n", "\n">> \o m4
        ELSE m4

\* html_to_markdown prepending the source line before the heading padding
html_to_markdown_source_before_padding(converted, ttl, source_url, opts) ==
    IF converted = <<>> THEN <<>>
    ELSE
    LET title_str == <<"#", " ">> \o ttl \o <<"\n", "\n">>
        m1 == IF ttl # <<>> /\ ~StartsWith(converted, title_str)
              THEN title_str \o converted ELSE converted
        m2 == CollapseNewlines(m1)
        m3 == CollapseBlankLines(m2)
        m4 == IF UrlSet(source_url)
              THEN <<"Source: <">> \o UrlStr(source_url) \o <<">", "\n", "\n">> \o m3
              ELSE m3
    IN  IF opts.extra_heading_space # <<>>
        THEN add_newlines_before_headings(m4, opts)
        ELSE CollapseNewlines(m4)

html_to_markdown(converted, ttl, source_url, opts) ==
    IF converted = <<>> THEN <<>>
    ELSE
    LET title_str == <<"#", " ">> \o ttl \o <<"\n", "\n">>
        m1 == IF ttl # <<>> /\ ~StartsWith(converted, title_str)
              THEN title_str \o converted ELSE converted
        m2 == CollapseNewlines(m1)
        m3 == CollapseBlankLines(m2)
        m4 == IF opts.extra_heading_space # <<>>
              THEN add_newlines_before_headings(m3, opts)
              ELSE CollapseNewlines(m3)
    IN  IF UrlSet(source_url)
        THEN <<"Source: <">> \o UrlStr(source_url) \o <<">", "\n", "\n">> \o m4
        ELSE m4

\* MdScraper.convert_to_markdown; c = 0 is content None
convert_to_markdown(nodes, c, ttl, source_url, opts) ==
    IF c = 0 THEN <<>>
    ELSE html_to_markdown(md(nodes, c), ttl, source_url, opts)

(***************************************************************************)
(* File names                                                              *)
(***************************************************************************)
\* extract_md_title reading the title from the first line of the text
extract_md_title_first_line(text) ==
    [found |-> TRUE, text |-> RemoveAll(Split(text, "\n")[1], <<"#", " ">>)]

\* MdScraper.extract_md_title; [found, text], found = FALSE being None
extract_md_title(text) ==
    LET lines == Split(text, "\n")
        hit   == {i \in 1..Len(lines) : StartsWith(lines[i], <<"#", " ">>)}
    IN  IF hit = {} THEN [found |-> FALSE, text |-> <<>>]
        ELSE [found |-> TRUE, text |-> RemoveAll(lines[Min(hit)], <<"#", " ">>)]

IllegalChars == {"\\", "/", "*", "?", ":", "\"", "<", ">", "|"}

\* utils.sanitize_filename
sanitize_filename(name) ==
    [i \in 1..Len(name) |-> IF name[i] \in IllegalChars THEN "_" ELSE name[i]]

\* utils.get_last_url_part
get_last_url_part(url) == Last(Split(UrlPath(url), "/"))

\* os.path.join(a, b)
PathJoin(a, b) ==
    IF b # <<>> /\ b[1] = "/" THEN b
    ELSE IF a = <<>> \/ Last(a) = "/" THEN a \o b
    ELSE a \o <<"/">> \o b

\* os.path.dirname(path)
PathDirname(path) ==
    LET slashes == {i \in 1..Len(path) : path[i] = "/"}
        head    == IF slashes = {} THEN <<>> ELSE SubSeq(path, 1, Max(slashes))
        solid   == {i \in 1..Len(head) : head[i] # "/"}
    IN  IF solid = {} THEN head ELSE SubSeq(head, 1, Max(solid))

TITLE == <<"%TITLE">>

URL == <<"%URL">>

\* process_single_url, lines 810-829: the path the Markdown is saved under
OutputPath(text, url, output_file, opts) ==
    IF output_file \in {TITLE, URL}
    THEN LET from_title == IF output_file = TITLE
                           THEN extract_md_title(text)
                           ELSE [found |-> FALSE, text |-> <<>>]
             use_url    == output_file = URL \/ from_title.text = <<>>
             extracted_filename ==
                 IF use_url THEN get_last_url_part(url) ELSE from_title.text
         IN  PathJoin(opts.outdir, sanitize_filename(extracted_filename) \o <<".md">>)
    ELSE PathJoin(opts.outdir, output_file)

(***************************************************************************)
(* Locator specification: find_content_container applied to every document *)
(* of at most MaxNodes nodes and to several custom name lists.             *)
(***************************************************************************)
\* the parts of the state an operation applied on its own does not use
BatchIdle ==
    url_list = <<>> /\ idx = 0 /\ success_count = 0 /\ failure_count = 0

PageIdle == title = <<>> /\ markdown = <<>>

DiskIdle == files = {} /\ dirs = {} /\ log = <<>>

CallIdle == call = <<>> /\ ret = <<>>

Div == E("div", 1)

LocatorKinds ==
    { Div,
      [Div EXCEPT !.id = "x"],
      [Div EXCEPT !.class = {"x"}],
      [Div EXCEPT !.idu = "x"],
      [Div EXCEPT !.id = "content"],
      [Div EXCEPT !.class = {"content"}],
      [Div EXCEPT !.class = {"nav", "main"}],
      E("article", 1),
      [E("section", 1) EXCEPT !.id = "content", !.class = {"content"}],
      T(<<"w">>, 1),
      T(<<"w", "w">>, 1) }

LocatorDocs == DocsOver(LocatorKinds, MaxNodes, MaxDepth)

CustomNameLists == { <<>>, <<"x">>, <<"main", "x">>, <<"x", "main">> }

InitLocator ==
    /\ soup \in {Parsed(d) : d \in LocatorDocs} \cup {NoSoup}
    /\ options \in {[DefaultOptions EXCEPT !.content = c] : c \in CustomNameLists}
    /\ content = 0
    /\ pc = "locate"
    /\ BatchIdle /\ PageIdle /\ DiskIdle /\ CallIdle

\* one call of find_content_container(soup)
FindContentContainer ==
    /\ pc = "locate"
    /\ content' = find_content_container(soup, options)
    /\ pc' = "located"
    /\ UNCHANGED <<options, soup, batchVars, pageVars, diskVars, callVars>>

NextLocator == FindContentContainer

SpecLocator == InitLocator /\ [][NextLocator]_vars

(***************************************************************************)
(* C1                                                                      *)
(***************************************************************************)
\* the elements each step of the cascade looks for
StepCandidates(nodes, opts, k) ==
    CASE k = 1 -> {j \in 1..Len(nodes) : nodes[j].tag = "div" /\
                     (nodes[j].id \in Range(opts.content) \/
                      nodes[j].idu \in Range(opts.content))}
      [] k = 2 -> {j \in 1..Len(nodes) : nodes[j].tag = "div" /\
                     nodes[j].class \cap Range(opts.content) # {}}
      [] k = 3 -> {j \in 1..Len(nodes) : nodes[j].tag = "div" /\
                     (nodes[j].id \in Range(opts.default_content_names) \/
                      nodes[j].idu \in Range(opts.default_content_names))}
      [] k = 4 -> {j \in 1..Len(nodes) : nodes[j].tag = "div" /\
                     nodes[j].class \cap Range(opts.default_content_names) # {}}
      [] k = 5 -> {j \in 1..Len(nodes) : nodes[j].tag = "article"}
      [] k = 6 -> {j \in 1..Len(nodes) : nodes[j].tag = "div"}

\* C1: find_content_container returns an element of the earliest step of
\* the cascade (custom id, custom class, default id, default class, first
\* <article>, largest <div>) that has any candidate, and None when no step
\* has one; with a div of class "content" and an <article> and no earlier
\* match the div is returned, and with an <article> as the only candidate
\* the first article is returned.
C1_EarliestStepWins ==
    (pc = "located" /\ soup.parsed) =>
        LET nodes == soup.nodes
            hits  == {k \in 1..6 : StepCandidates(nodes, options, k) # {}}
        IN  /\ hits = {} => content = 0
            /\ hits # {} => content \in StepCandidates(nodes, options, Min(hits))
            /\ (hits # {} /\ Min(hits) = 5) =>
                   content = Min(StepCandidates(nodes, options, 5))
            /\ ( /\ \E j \in 1..Len(nodes) : nodes[j].tag = "article"
                 /\ \E j \in 1..Len(nodes) :
                        nodes[j].tag = "div" /\ "content" \in nodes[j].class
                 /\ \A k \in 1..3 : StepCandidates(nodes, options, k) = {} )
                 => (nodes[content].tag = "div" /\ "content" \in nodes[content].class)

\* a located document holding both a div of class "content" and an
\* <article> that comes first, with no id match
C1_Witness ==
    /\ pc = "located" /\ soup.parsed
    /\ \A k \in 1..3 : StepCandidates(soup.nodes, options, k) = {}
    /\ \E a, d \in 1..Len(soup.nodes) :
          /\ a < d
          /\ soup.nodes[a].tag = "article"
          /\ soup.nodes[d].tag = "div" /\ "content" \in soup.nodes[d].class
          /\ content = d

(***************************************************************************)
(* C18                                                                     *)
(***************************************************************************)
\* the divs whose id is the name, and those whose class list holds it
DivsWithId(nodes, name) ==
    {j \in 1..Len(nodes) : nodes[j].tag = "div" /\ nodes[j].id = name}

DivsWithClass(nodes, name) ==
    {j \in 1..Len(nodes) : nodes[j].tag = "div" /\ name \in nodes[j].class}

\* the first div in document order carrying the earliest-listed name that any
\* div carries, ids over the whole list before classes; 0 without any
FirstOfEarliestName(nodes, names) ==
    LET byId    == {k \in 1..Len(names) : DivsWithId(nodes, names[k]) # {}}
        byClass == {k \in 1..Len(names) : DivsWithClass(nodes, names[k]) # {}}
    IN  IF byId # {} THEN Min(DivsWithId(nodes, names[Min(byId)]))
        ELSE IF byClass # {} THEN Min(DivsWithClass(nodes, names[Min(byClass)]))
        ELSE 0

\* C18: within a name list the ids are searched over the whole list before
\* any class, names in list order: the div selected is the first in document
\* order that carries the earliest-listed name carried by any div, wherever
\* the divs of later names, or of a class match, stand in the document.
C18_IdsBeforeClassesInListOrder ==
    (pc = "located" /\ soup.parsed) =>
        LET custom   == FirstOfEarliestName(soup.nodes, options.content)
            default  == FirstOfEarliestName(soup.nodes, options.default_content_names)
        IN  /\ custom # 0 => content = custom
            /\ (custom = 0 /\ default # 0) => content = default

(***************************************************************************)
(* C19                                                                     *)
(***************************************************************************)
ListedNames == Range(options.content) \cup Range(options.default_content_names)

\* the elements that are no div and carry a listed name as id or class
NamedNonDivs(nodes) ==
    {j \in 1..Len(nodes) :
        /\ nodes[j].tag \notin {"div", "#text"}
        /\ nodes[j].id \in ListedNames \/ nodes[j].class \cap ListedNames # {}}

NoNamedDiv(nodes) == \A k \in 1..4 : StepCandidates(nodes, options, k) = {}

\* C19 as stated: an element that is no div and carries a listed name is
\* selected by the name step when no div carries one.
C19_NameStepsMatchAnyTag ==
    (pc = "located" /\ soup.parsed /\ NoNamedDiv(soup.nodes)
        /\ NamedNonDivs(soup.nodes) # {}) =>
        content \in NamedNonDivs(soup.nodes)

\* C19 amended: the name steps match <div> elements only.  When no div
\* carries a listed name, an element of another tag that carries one does
\* not stop the search: the first <article> is returned, else the largest
\* div, else nothing.
C19_NameStepsMatchDivsOnly ==
    (pc = "located" /\ soup.parsed) =>
        /\ content # 0 => soup.nodes[content].tag \in {"div", "article"}
        /\ NoNamedDiv(soup.nodes) =>
              LET articles == StepCandidates(soup.nodes, options, 5)
                  divs     == StepCandidates(soup.nodes, options, 6)
              IN  IF articles # {} THEN content = Min(articles)
                  ELSE IF divs # {} THEN content \in divs
                  ELSE content = 0

\* a <section> with a listed id and class stands before a plain div: the
\* div is returned
C19_Witness ==
    /\ pc = "located" /\ soup.parsed
    /\ NoNamedDiv(soup.nodes)
    /\ \E j \in NamedNonDivs(soup.nodes) :
          /\ soup.nodes[j].tag = "section"
          /\ j < content
    /\ content # 0 /\ soup.nodes[content].tag = "div"

(***************************************************************************)
(* C20                                                                     *)
(***************************************************************************)
TextLen(nodes, j) == Len(get_text(nodes, j))

NoEarlierStep(nodes) == \A k \in 1..5 : StepCandidates(nodes, options, k) = {}

\* C20: when no name step and no <article> matches, the div returned has the
\* longest rendered text, and is the first in document order of the divs
\* that have it; without any div nothing is returned.
C20_LargestDivFirstOfTies ==
    (pc = "located" /\ soup.parsed /\ NoEarlierStep(soup.nodes)) =>
        LET nodes == soup.nodes
            divs  == {j \in 1..Len(nodes) : nodes[j].tag = "div"}
        IN  IF divs = {} THEN content = 0
            ELSE /\ content \in divs
                 /\ \A k \in divs :
                       /\ TextLen(nodes, content) >= TextLen(nodes, k)
                       /\ k < content => TextLen(nodes, content) > TextLen(nodes, k)

\* two divs with the same text, which is not empty, and none longer: the
\* first was returned
C20_Witness ==
    /\ pc = "located" /\ soup.parsed /\ NoEarlierStep(soup.nodes)
    /\ content # 0
    /\ TextLen(soup.nodes, content) > 0
    /\ \E k \in (content + 1)..Len(soup.nodes) :
          /\ soup.nodes[k].tag = "div"
          /\ TextLen(soup.nodes, k) = TextLen(soup.nodes, content)

(***************************************************************************)
(* The batch orchestrator: process_url_list over a small web               *)
(***************************************************************************)
Http(path) == [base |-> "http://h", path |-> path, rest |-> ""]

Href(path) == [base |-> "", path |-> path, rest |-> ""]

A(href, d) == [E("a", d) EXCEPT !.has_href = TRUE, !.href = href]

ContentDiv == [E("div", 1) EXCEPT !.class = {"content"}]

\* <div class="content"><h1>T</h1><p>w<img alt="i"></p><p><a href="/d/x">l</a></p></div>
PageOk ==
    << ContentDiv, E("h1", 2), T(<<"T">>, 3),
       E("p", 2), T(<<"w">>, 3), [E("img", 3) EXCEPT !.alt = <<"i">>],
       E("p", 2), A(Href(<<"/", "d", "/", "x">>), 3), T(<<"l">>, 4) >>

\* <div class="content"><h1>T</h1><p>v</p></div>: the title of PageOk again
PageSameTitle ==
    << ContentDiv, E("h1", 2), T(<<"T">>, 3), E("p", 2), T(<<"v">>, 3) >>

\* <p>w</p>: no id or class match, no <article>, no <div>
PageNoContent == << E("p", 1), T(<<"w">>, 2) >>

\* <div class="content"><p><img alt="i"></p></div>: nothing left to convert
\* once the image is removed
PageOnlyImage ==
    << ContentDiv, E("p", 2), [E("img", 3) EXCEPT !.alt = <<"i">>] >>

\* <article><p><a name="k">l</a></p></article>: an anchor without href
PageBareAnchor ==
    << E("article", 1), E("p", 2), E("a", 3), T(<<"l">>, 4) >>

\* <title>W</title><div class="content"><h1>X</h1><p>w</p></div>
PageTitleAndH1 ==
    << E("title", 1), T(<<"W">>, 2),
       ContentDiv, E("h1", 2), T(<<"X">>, 3), E("p", 2), T(<<"w">>, 3) >>

\* <h1>O</h1><div class="content"><h1>X</h1><p>w</p></div>
PageOuterH1 ==
    << E("h1", 1), T(<<"O">>, 2),
       ContentDiv, E("h1", 2), T(<<"X">>, 3), E("p", 2), T(<<"w">>, 3) >>

Ua == Http(<<"/", "d", "/", "a">>)
Ub == Http(<<"/", "d", "/", "b">>)
Ue == Http(<<"/", "e">>)
Un == Http(<<"/", "n">>)
Ui == Http(<<"/", "i">>)
Uk == Http(<<"/", "k">>)
Uh == Http(<<"/", "h">>)
Uj == Http(<<"/", "j">>)

Urls == {Ua, Ub, Ue, Un, Ui, Uk}

\* what fetch_webpage returns for each URL; the fetch of Ue fails
Web(url) ==
    CASE url = Ua -> Parsed(PageOk)
      [] url = Ub -> Parsed(PageSameTitle)
      [] url = Un -> Parsed(PageNoContent)
      [] url = Ui -> Parsed(PageOnlyImage)
      [] url = Uk -> Parsed(PageBareAnchor)
      [] url = Uh -> Parsed(PageTitleAndH1)
      [] url = Uj -> Parsed(PageOuterH1)
      [] OTHER    -> NoSoup

Selector(tag, class) == [tag |-> tag, class |-> class]

\* the option sets of the batch runs
EditOptions ==
    { DefaultOptions,
      [DefaultOptions EXCEPT !.no_images = TRUE],
      [DefaultOptions EXCEPT !.no_links = TRUE, !.root_url = Http(<<"/", "d">>)],
      [DefaultOptions EXCEPT !.root_url = Http(<<"/", "d">>),
                             !.prepend_source_link = TRUE],
      [DefaultOptions EXCEPT !.root_url = Http(<<"/", "d">>), !.no_images = TRUE,
                             !.exclude_selectors = <<Selector("a", "")>>] }

OutputNames == {TITLE, URL, <<"f">>}

UrlLists == UNION {[1..n -> Urls] : n \in 0..MaxUrls}

Event(ev, url, arg) == [ev |-> ev, url |-> url, arg |-> arg]

Init ==
    /\ options \in {[o EXCEPT !.output = f] : o \in EditOptions, f \in OutputNames}
    /\ url_list \in UrlLists
    /\ call \in [output_dir : {<<>>, <<"o">>}]
    /\ idx = 0 /\ success_count = 0 /\ failure_count = 0
    /\ soup = NoSoup /\ content = 0
    /\ PageIdle /\ DiskIdle
    /\ ret = FALSE
    /\ pc = "start"

\* process_url_list, lines 726-737: the output directory and the counters
ProcessUrlList ==
    /\ pc = "start"
    /\ options' = IF call.output_dir # <<>>
                  THEN [options EXCEPT !.outdir = call.output_dir]
                  ELSE options
    /\ success_count' = 0
    /\ failure_count' = 0
    /\ idx' = 1
    /\ log' = Append(log, Event("start", NoUrl, <<>>))
    /\ pc' = IF url_list = <<>> THEN "summary" ELSE "fetch"
    /\ UNCHANGED <<url_list, soup, content, pageVars, files, dirs, callVars>>

\* _fetch_content, line 445: fetch_webpage
FetchWebpage ==
    /\ pc = "fetch"
    /\ soup' = Web(url_list[idx])
    /\ log' = Append(log, Event("fetch", url_list[idx], <<>>))
    /\ pc' = "locate"
    /\ UNCHANGED <<options, batchVars, content, pageVars, files, dirs, callVars>>

\* save_markdown_to_file: open(path, 'w') replaces what the path held
WriteFile(fs, path, text) ==
    {f \in fs : f.path # path} \cup {[path |-> path, text |-> text]}

\* the side file of extract_page_content, lines 407-411
DebugHtml == <<"debug_html.html">>

\* extract_page_content giving up, after the dump, whenever debug is set
ExtractPageContent_debug_stops ==
    /\ pc = "locate"
    /\ content' = IF options.debug THEN 0 ELSE find_content_container(soup, options)
    /\ files' = IF options.debug /\ content' = 0
                THEN WriteFile(files, DebugHtml, <<"str(soup)">>)
                ELSE files
    /\ title' = <<>>
    /\ pc' = IF content' = 0 THEN "convert" ELSE "exclude"
    /\ UNCHANGED <<options, batchVars, soup, markdown, dirs, log, callVars>>

\* _fetch_content, lines 446-448: extract_page_content, which with debug set
\* writes the document to debug_html.html when it finds no container
ExtractPageContent ==
    /\ pc = "locate"
    /\ content' = find_content_container(soup, options)
    /\ files' = IF options.debug /\ content' = 0
                THEN WriteFile(files, DebugHtml, <<"str(soup)">>)
                ELSE files
    /\ title' = <<>>
    /\ pc' = IF content' = 0 THEN "convert" ELSE "exclude"
    /\ UNCHANGED <<options, batchVars, soup, markdown, dirs, log, callVars>>

\* _fetch_content, line 450
ProcessExcludeSelectors ==
    /\ pc = "exclude"
    /\ soup' = Parsed(process_exclude_selectors(soup.nodes, content, options))
    /\ pc' = "images"
    /\ UNCHANGED <<options, batchVars, content, pageVars, diskVars, callVars>>

\* _fetch_content, lines 452-453
RemoveImages ==
    /\ pc = "images"
    /\ soup' = Parsed(ImageStep(soup.nodes, content, options))
    /\ pc' = "links"
    /\ UNCHANGED <<options, batchVars, content, pageVars, diskVars, callVars>>

\* _fetch_content, lines 455-458; the KeyError of make_urls_relative is caught
\* nowhere and ends the run
EditLinks ==
    /\ pc = "links"
    /\ LET r == LinkStep(soup.nodes, content, options)
       IN  /\ soup' = Parsed(r.nodes)
           /\ pc' = IF r.raised THEN "crashed" ELSE "title"
    /\ UNCHANGED <<options, batchVars, content, pageVars, diskVars, callVars>>

\* the title read from the document as it was fetched
ExtractPageTitle_before_edits ==
    /\ pc = "title"
    /\ title' = extract_page_title(Web(url_list[idx]).nodes)
    /\ pc' = "convert"
    /\ UNCHANGED <<options, batchVars, soup, content, markdown, diskVars, callVars>>

\* _fetch_content, line 460
ExtractPageTitle ==
    /\ pc = "title"
    /\ title' = extract_page_title(soup.nodes)
    /\ pc' = "convert"
    /\ UNCHANGED <<options, batchVars, soup, content, markdown, diskVars, callVars>>

\* fetch_content, lines 428-433: convert_to_markdown, which calls
\* html_to_markdown when there is content
ConvertToMarkdown ==
    /\ pc = "convert"
    /\ markdown' = convert_to_markdown(soup.nodes, content, title,
                        IF options.prepend_source_link THEN url_list[idx] ELSE NoUrl,
                        options)
    /\ log' = IF content # 0
              THEN Append(log, Event("html_to_markdown", url_list[idx], <<>>))
              ELSE log
    /\ pc' = "save"
    /\ UNCHANGED <<options, batchVars, soup, content, title, files, dirs, callVars>>

\* process_single_url, lines 809-858, after fetch_content has returned
SaveMarkdown ==
    /\ pc = "save"
    /\ IF markdown # <<>>
       THEN LET output_file == OutputPath(markdown, url_list[idx], options.output, options)
                output_dir  == PathDirname(output_file)
            IN  /\ dirs' = IF output_dir # <<>> THEN dirs \cup {output_dir} ELSE dirs
                /\ files' = WriteFile(files, output_file, markdown)
                /\ log' = log \o <<Event("save", url_list[idx], output_file),
                                    Event("return", url_list[idx], <<"True">>)>>
                /\ ret' = TRUE
       ELSE /\ log' = Append(log, Event("return", url_list[idx], <<"False">>))
            /\ ret' = FALSE
            /\ UNCHANGED <<files, dirs>>
    /\ pc' = "count"
    /\ UNCHANGED <<options, batchVars, soup, content, pageVars, call>>

\* the loop of process_url_list counting every URL as a success
CountResult_always_success ==
    /\ pc = "count"
    /\ success_count' = success_count + 1
    /\ UNCHANGED failure_count
    /\ idx' = idx + 1
    /\ pc' = IF idx = Len(url_list) THEN "summary" ELSE "fetch"
    /\ UNCHANGED <<options, url_list, soup, content, pageVars, diskVars, callVars>>

\* process_url_list, lines 743-746, and the step of the loop
CountResult ==
    /\ pc = "count"
    /\ IF ret
       THEN success_count' = success_count + 1 /\ UNCHANGED failure_count
       ELSE failure_count' = failure_count + 1 /\ UNCHANGED success_count
    /\ idx' = idx + 1
    /\ pc' = IF idx = Len(url_list) THEN "summary" ELSE "fetch"
    /\ UNCHANGED <<options, url_list, soup, content, pageVars, diskVars, callVars>>

\* process_url_list, lines 748-751
PrintSummary ==
    /\ pc = "summary"
    /\ log' = Append(log, Event("summary", NoUrl, <<>>))
    /\ pc' = "done"
    /\ UNCHANGED <<options, batchVars, soup, content, pageVars, files, dirs, callVars>>

Batches == Cardinality({i \in 1..Len(log) : log[i].ev = "start"})

\* the same scraper is given the list once more
RunAgain ==
    /\ pc = "done"
    /\ Batches < MaxBatches
    /\ pc' = "start"
    /\ UNCHANGED <<options, batchVars, soup, content, pageVars, diskVars, callVars>>

Next ==
    \/ ProcessUrlList
    \/ FetchWebpage
    \/ ExtractPageContent
    \/ ProcessExcludeSelectors
    \/ RemoveImages
    \/ EditLinks
    \/ ExtractPageTitle
    \/ ConvertToMarkdown
    \/ SaveMarkdown
    \/ CountResult
    \/ PrintSummary
    \/ RunAgain

Spec == Init /\ [][Next]_vars

(***************************************************************************)
(* Reading the log                                                         *)
(***************************************************************************)
\* the events of the log at the positions of a set, in order
EventsAt(lg, S) ==
    LET at == SortedSeq(S) IN [k \in 1..Len(at) |-> lg[at[k]]]

\* the part of the log written by the batch now running (or last run)
LastBatch(lg) ==
    LET starts == {i \in 1..Len(lg) : lg[i].ev = "start"}
    IN  IF starts = {} THEN <<>> ELSE SubSeq(lg, Max(starts), Len(lg))

\* the events of one kind
Of(lg, ev) == EventsAt(lg, {i \in 1..Len(lg) : lg[i].ev = ev})

\* the part of the log written for the URL now in the pipeline
CurrentUrlLog(lg) ==
    LET fetches == {i \in 1..Len(lg) : lg[i].ev = "fetch"}
    IN  IF fetches = {} THEN <<>> ELSE SubSeq(lg, Max(fetches), Len(lg))

Returned(lg, val) ==
    EventsAt(lg, {i \in 1..Len(lg) : lg[i].ev = "return" /\ lg[i].arg = <<val>>})

(***************************************************************************)
(* C2                                                                      *)
(***************************************************************************)
\* C2: a batch never ends without its summary whatever happens to a URL, the
\* URLs are fetched one at a time (a URL is fetched only when the one before
\* has returned), and when the batch is done every URL of the list has been
\* attempted exactly once, in listed order.
C2_EveryUrlAttemptedInOrder ==
    LET lg == LastBatch(log)
        fetched == [k \in 1..Len(Of(lg, "fetch")) |-> Of(lg, "fetch")[k].url]
    IN  /\ pc # "crashed"
        /\ Len(Of(lg, "fetch")) - Len(Of(lg, "return")) \in {0, 1}
        /\ fetched = SubSeq(url_list, 1, Len(fetched))
        /\ pc = "done" => fetched = url_list

(***************************************************************************)
(* C3                                                                      *)
(***************************************************************************)
\* the URL in the pipeline has no content to convert: its fetch failed, no
\* container was located, or the converter gives empty text
NothingToConvert ==
    \/ ~soup.parsed
    \/ content = 0
    \/ md(soup.nodes, content) = <<>>

\* C3: html_to_markdown is run only on located content; when
\* process_single_url has returned for a URL whose fetch failed, whose
\* content was not located or whose conversion is empty, it has returned
\* False and has saved no file for that URL; every directory and file that
\* exists comes from a save; and True is returned only with the Markdown
\* written under the saved path.
C3_FailureWritesNothing ==
    /\ (pc = "save" /\ Of(CurrentUrlLog(log), "html_to_markdown") # <<>>)
          => (soup.parsed /\ content # 0)
    /\ (pc = "save" /\ NothingToConvert) => markdown = <<>>
    /\ (pc = "count" /\ NothingToConvert) =>
          /\ ret = FALSE
          /\ Of(CurrentUrlLog(log), "save") = <<>>
          /\ Last(log) = Event("return", url_list[idx], <<"False">>)
    /\ dirs = {PathDirname(e.arg) : e \in Range(Of(log, "save"))} \ {<<>>}
    /\ {f.path : f \in files} = {e.arg : e \in Range(Of(log, "save"))}
    /\ (pc = "count" /\ ret) =>
          /\ Len(Of(CurrentUrlLog(log), "save")) = 1
          /\ [path |-> Of(CurrentUrlLog(log), "save")[1].arg, text |-> markdown]
                \in files

\* a URL whose page is fetched and located but converts to nothing has
\* returned False while an earlier URL of the batch left its file
C3_Witness ==
    /\ pc = "count" /\ ~ret
    /\ soup.parsed /\ content # 0
    /\ md(soup.nodes, content) = <<>>
    /\ files # {}

(***************************************************************************)
(* C4                                                                      *)
(***************************************************************************)
\* C4: while a batch runs the two counters together count the URLs that
\* have returned and been counted, success_count the saves and
\* failure_count the False returns of this batch; when the batch is
\* finished their sum is the length of the list.
C4_CountersTally ==
    pc \notin {"start", "crashed"} =>
        LET lg == LastBatch(log)
            pending == IF pc = "count" THEN 1 ELSE 0
        IN  /\ success_count + failure_count = Len(Of(lg, "return")) - pending
            /\ success_count = Len(Of(lg, "save")) - (IF pc = "count" /\ ret THEN 1 ELSE 0)
            /\ failure_count = Len(Returned(lg, "False"))
                                  - (IF pc = "count" /\ ~ret THEN 1 ELSE 0)
            /\ pc \in {"summary", "done"} =>
                   success_count + failure_count = Len(url_list)

\* a second batch on the same scraper has finished with one success and one
\* failure
C4_Witness ==
    /\ pc = "done"
    /\ Batches = 2
    /\ success_count = 1 /\ failure_count = 1

(***************************************************************************)
(* C5                                                                      *)
(***************************************************************************)
\* C5: with a generated file name (%TITLE or %URL) a save never replaces an
\* existing file, so there are as many files as there have been saves.
C5_NeverOverwrites ==
    options.output \in {TITLE, URL} =>
        Cardinality(files) = Len(Of(log, "save"))

(***************************************************************************)
(* process_single_url on a given Markdown: fetch_content has returned the  *)
(* text, the file name is generated and the file saved                     *)
(***************************************************************************)
SourceLine == <<"Source: <", "http://h", "/", "d", "/", "a", ">">>

MarkdownLines ==
    { <<"#", " ", "T">>,
      <<"#", " ">>,
      <<"#", " ", "a", "/", "b">>,
      <<"#", " ", "C", "#", " ", "g">>,
      <<"#", "#", " ", "S">>,
      <<"t">>,
      <<>>,
      SourceLine }

Markdowns == {JoinLines(ls) : ls \in UNION {[1..n -> MarkdownLines] : n \in 1..MaxLines}}

FilenameUrls ==
    { Ua,
      Http(<<"/", "d", "/">>),
      [base |-> "http://h", path |-> <<"/", "a", ":", "b">>, rest |-> "?q"] }

InitFilename ==
    /\ markdown \in Markdowns
    /\ url_list \in {<<u>> : u \in FilenameUrls}
    /\ options \in {[DefaultOptions EXCEPT !.output = f, !.outdir = d] :
                      f \in OutputNames \cup {<<"/", "f">>},
                      d \in {<<>>, <<"o">>}}
    /\ idx = 1 /\ success_count = 0 /\ failure_count = 0
    /\ soup = NoSoup /\ content = 0 /\ title = <<>>
    /\ files = {} /\ dirs = {}
    /\ log = <<Event("start", NoUrl, <<>>), Event("fetch", url_list[1], <<>>)>>
    /\ call = [output_dir |-> <<>>]
    /\ ret = FALSE
    /\ pc = "save"

NextFilename == SaveMarkdown \/ CountResult \/ PrintSummary

SpecFilename == InitFilename /\ [][NextFilename]_vars

(***************************************************************************)
(* C6                                                                      *)
(***************************************************************************)
\* the lines of the Markdown that start with "# "
TitleLines(text) ==
    {i \in 1..Len(Split(text, "\n")) :
        StartsWith(Split(text, "\n")[i], <<"#", " ">>)}

\* the title text of the first such line
FirstTitle(text) ==
    RemoveAll(Split(text, "\n")[Min(TitleLines(text))], <<"#", " ">>)

\* the file name.md in the directory
InDir(dir, name) == IF dir = <<>> THEN name ELSE dir \o <<"/">> \o name

\* the path of the save made for the URL in hand
SavedPath == Last(Of(log, "save")).arg

FromUrl == sanitize_filename(get_last_url_part(url_list[idx])) \o <<".md">>

\* C6 as stated: with %TITLE the stem comes from the first line starting
\* with "# " whenever there is one and from the last URL segment when there
\* is none, with %URL from the last URL segment, and any other output value
\* names the file inside outdir.
C6_FilenameStrategy ==
    (pc = "count" /\ ret) =>
        CASE options.output = TITLE /\ TitleLines(markdown) # {} ->
                SavedPath = InDir(options.outdir,
                               sanitize_filename(FirstTitle(markdown)) \o <<".md">>)
          [] options.output = TITLE /\ TitleLines(markdown) = {} ->
                SavedPath = InDir(options.outdir, FromUrl)
          [] options.output = URL ->
                SavedPath = InDir(options.outdir, FromUrl)
          [] OTHER ->
                SavedPath = InDir(options.outdir, options.output)

\* C6 amended: with %TITLE the stem comes from the first line starting with
\* "# " when the title extracted from it is not empty, and from the last
\* URL segment when there is no such line or the extracted title is empty;
\* with %URL from the last URL segment; any other output value is joined to
\* outdir: a relative one names the file inside outdir, an absolute one is
\* the path itself.
C6_FilenameStrategyAmended ==
    (pc = "count" /\ ret) =>
        CASE options.output = TITLE /\ TitleLines(markdown) # {}
                /\ FirstTitle(markdown) # <<>> ->
                SavedPath = InDir(options.outdir,
                               sanitize_filename(FirstTitle(markdown)) \o <<".md">>)
          [] options.output = TITLE ->
                SavedPath = InDir(options.outdir, FromUrl)
          [] options.output = URL ->
                SavedPath = InDir(options.outdir, FromUrl)
          [] options.output[1] = "/" ->
                SavedPath = options.output
          [] OTHER ->
                SavedPath = InDir(options.outdir, options.output)

\* a Markdown that begins with the source line and has its title on a later
\* line is saved under the title
C6_Witness ==
    /\ pc = "count" /\ ret
    /\ options.output = TITLE
    /\ StartsWith(markdown, SourceLine)
    /\ TitleLines(markdown) # {}
    /\ SavedPath = InDir(options.outdir, <<"T", ".md">>)

(***************************************************************************)
(* The content editor on its own: the three edits of _fetch_content        *)
(* applied to a located content node, in every order                       *)
(***************************************************************************)
EditorKinds ==
    { E("p", 1),
      E("a", 1),
      A(Href(<<"/", "d", "/", "x">>), 1),
      [E("img", 1) EXCEPT !.alt = <<"i">>],
      T(<<"w">>, 1),
      T(<<" ">>, 1) }

\* a content <div> holding a document of the editor kinds
UnderContent(d) ==
    <<ContentDiv>> \o [k \in 1..Len(d) |-> [d[k] EXCEPT !.depth = @ + 1]]

EditorDocs == {UnderContent(d) : d \in DocsOver(EditorKinds, MaxEditNodes, MaxDepth)}

EditorOptions ==
    {[DefaultOptions EXCEPT !.no_images = i, !.no_links = l, !.root_url = r,
                            !.exclude_selectors = x] :
        i \in BOOLEAN, l \in BOOLEAN, r \in {NoUrl, Http(<<"/", "d">>)},
        x \in {<<>>, <<Selector("a", "")>>, <<Selector("p", "")>>}}

InitEditor ==
    /\ soup \in {Parsed(d) : d \in EditorDocs}
    /\ content = 1
    /\ options \in EditorOptions
    /\ call = [orig |-> soup.nodes, done |-> <<>>]
    /\ ret = <<>>
    /\ pc = "edit"
    /\ BatchIdle /\ PageIdle /\ DiskIdle

Todo(op) == pc = "edit" /\ op \notin Range(call.done)

\* process_exclude_selectors(content)
ApplyExcludeSelectors ==
    /\ Todo("exclude")
    /\ soup' = Parsed(process_exclude_selectors(soup.nodes, content, options))
    /\ call' = [call EXCEPT !.done = Append(@, "exclude")]
    /\ UNCHANGED <<options, content, pc, ret, batchVars, pageVars, diskVars>>

\* remove_images(content) when no_images is set
ApplyImageStep ==
    /\ Todo("images")
    /\ soup' = Parsed(ImageStep(soup.nodes, content, options))
    /\ call' = [call EXCEPT !.done = Append(@, "images")]
    /\ UNCHANGED <<options, content, pc, ret, batchVars, pageVars, diskVars>>

\* remove_links(content) or make_urls_relative(content)
ApplyLinkStep ==
    /\ Todo("links")
    /\ LET r == LinkStep(soup.nodes, content, options)
       IN  /\ soup' = Parsed(r.nodes)
           /\ pc' = IF r.raised THEN "crashed" ELSE "edit"
    /\ call' = [call EXCEPT !.done = Append(@, "links")]
    /\ UNCHANGED <<options, content, ret, batchVars, pageVars, diskVars>>

NextEditor == ApplyExcludeSelectors \/ ApplyImageStep \/ ApplyLinkStep

SpecEditor == InitEditor /\ [][NextEditor]_vars

\* the edits of a list applied in the order of the list
RECURSIVE ApplyOps(_, _, _)
ApplyOps(nodes, ops, opts) ==
    IF ops = <<>> THEN nodes
    ELSE ApplyOps(
            CASE Head(ops) = "exclude" -> process_exclude_selectors(nodes, 1, opts)
              [] Head(ops) = "images"  -> ImageStep(nodes, 1, opts)
              [] Head(ops) = "links"   -> LinkStep(nodes, 1, opts).nodes,
            Tail(ops), opts)

PipelineOrder == <<"exclude", "images", "links">>

\* a subtree as it serializes: empty strings vanish and adjacent strings run
\* together, so two trees that print the same HTML compare equal
RECURSIVE Serialized(_)
Serialized(nodes) ==
    IF nodes = <<>> THEN <<>>
    ELSE LET n == Head(nodes)
             r == Serialized(Tail(nodes))
         IN  IF n.tag = "#text" /\ n.text = <<>> THEN r
             ELSE IF n.tag = "#text" /\ r # <<>> /\ r[1].tag = "#text"
                  THEN <<[r[1] EXCEPT !.text = n.text \o @, !.depth = n.depth]>> \o Tail(r)
             ELSE <<n>> \o r

NonWhitespace(str) == SelectSeq(str, LAMBDA ch : ch \notin Whitespace)

\* the same elements and the same text, whitespace apart
SameContent(a, b) ==
    LET Bare(nodes) == [k \in 1..Len(nodes) |->
                           [nodes[k] EXCEPT !.text = NonWhitespace(@)]]
    IN  Serialized(Bare(a)) = Serialized(Bare(b))

(***************************************************************************)
(* C7                                                                      *)
(***************************************************************************)
\* C7 as stated: once the three edits have been applied, in whatever order,
\* the content is what the pipeline order (exclude selectors, images, links)
\* makes of the original content.
C7_EditsCommute ==
    (pc = "edit" /\ Len(call.done) = 3) =>
        SameContent(soup.nodes, ApplyOps(call.orig, PipelineOrder, options))

\* C7 amended: removeImages and removeLinks commute up to whitespace, on the
\* original content and after the exclude selectors alike: with no_links set,
\* the image step and the link step give in either order the same elements
\* and the same non-whitespace text.
C7_ImagesAndRemoveLinksCommute ==
    (pc = "edit" /\ options.no_links) =>
        /\ call.done \in {<<"images", "links">>, <<"links", "images">>} =>
              SameContent(soup.nodes,
                          remove_links(ImageStep(call.orig, 1, options), 1))
        /\ call.done \in {<<"exclude", "images", "links">>,
                           <<"exclude", "links", "images">>} =>
              SameContent(soup.nodes,
                          ApplyOps(call.orig, PipelineOrder, options))

\* links were replaced before the images were removed, in a content where
\* both edits had something to do inside one paragraph
C7_Witness ==
    /\ pc = "edit"
    /\ options.no_links /\ options.no_images
    /\ call.done = <<"links", "images">>
    /\ \E i, j \in 2..Len(call.orig) :
          /\ call.orig[i].tag = "a" /\ call.orig[j].tag = "img"
          /\ IsAncestor(call.orig, i, j)
    /\ soup.nodes # call.orig

(***************************************************************************)
(* C9                                                                      *)
(***************************************************************************)
Anchors(nodes) == {j \in Descendants(nodes, 1) : nodes[j].tag = "a"}

\* the elements of the content that are neither anchors nor inside one
OutsideAnchors(nodes) ==
    KeepExcept(nodes, Subtrees(nodes, Anchors(nodes)) \cup
                      {j \in 1..Len(nodes) : nodes[j].tag = "#text"})

LinkStepTaken == "links" \notin Range(call.done) /\ "links" \in Range(call'.done)

\* an anchor of the content carries another href after the step than before
HrefRewritten ==
    \E j \in 1..Min({Len(soup.nodes), Len(soup'.nodes)}) :
        /\ soup'.nodes[j].tag = "a" /\ soup'.nodes[j].has_href
        /\ soup.nodes[j].tag = "a" => soup'.nodes[j].href # soup.nodes[j].href

\* C9: the link step applies exactly one policy.  With no_links every anchor
\* is replaced by its text (no anchor is left, the text and the other elements
\* of the content are unchanged) and no href is rewritten, root_url set or
\* not; an href is rewritten only with no_links false and root_url set, and
\* then to its path relative to root_url; with no_links false and root_url
\* empty the content is left as it was.
C9_OneLinkPolicy ==
    [][LinkStepTaken =>
        /\ options.no_links =>
              /\ pc' = "edit"
              /\ Anchors(soup'.nodes) = {}
              /\ get_text(soup'.nodes, 1) = get_text(soup.nodes, 1)
              /\ OutsideAnchors(soup'.nodes) = OutsideAnchors(soup.nodes)
              /\ ~HrefRewritten
        /\ HrefRewritten => ~options.no_links /\ UrlSet(options.root_url)
        /\ (~options.no_links /\ UrlSet(options.root_url) /\ pc' = "edit") =>
              /\ Len(soup'.nodes) = Len(soup.nodes)
              /\ \A j \in 1..Len(soup.nodes) :
                    soup'.nodes[j] =
                        IF j \in Anchors(soup.nodes)
                        THEN [soup.nodes[j] EXCEPT !.href =
                                 get_relative_url_path(@, options)]
                        ELSE soup.nodes[j]
        /\ (~options.no_links /\ ~UrlSet(options.root_url)) =>
              pc' = "edit" /\ soup' = soup
    ]_vars

\* no_links and root_url both set, the content held an anchor whose href lies
\* under root_url, and the link step replaced it by its text
C9_Witness ==
    /\ pc = "edit"
    /\ options.no_links /\ UrlSet(options.root_url)
    /\ call.done = <<"links">>
    /\ \E j \in Anchors(call.orig) :
          /\ call.orig[j].has_href
          /\ get_relative_url_path(call.orig[j].href, options) # call.orig[j].href
          /\ get_text(call.orig, j) # <<>>
    /\ Anchors(soup.nodes) = {}
    /\ get_text(soup.nodes, 1) = get_text(call.orig, 1)

(***************************************************************************)
(* C10                                                                     *)
(***************************************************************************)
HasImageMarkup(str) ==
    \E i \in 1..(Len(str) - 1) : str[i] = "!" /\ str[i + 1] = "["

Images(nodes) == {j \in Descendants(nodes, 1) : nodes[j].tag = "img"}

\* C10: with no_images set, once the image step has run no <img> is left under
\* the content and the Markdown converted from it holds no "![" ; the image
\* step itself keeps every non-whitespace character of the content's text.
C10_NoImagesNoImageMarkup ==
    (options.no_images /\ "images" \in Range(call.done)) =>
        /\ Images(soup.nodes) = {}
        /\ ~HasImageMarkup(convert_to_markdown(soup.nodes, 1, <<"t">>, Ua, options))
        /\ Last(call.done) = "images" =>
              NonWhitespace(get_text(soup.nodes, 1)) =
                 NonWhitespace(get_text(
                    ApplyOps(call.orig, SubSeq(call.done, 1, Len(call.done) - 1),
                             options), 1))

\* a paragraph held an image next to text: the image is gone, the text is kept
C10_Witness ==
    /\ options.no_images
    /\ call.done = <<"images">>
    /\ \E i, j \in 2..Len(call.orig) :
          /\ call.orig[i].tag = "p" /\ call.orig[j].tag = "img"
          /\ IsAncestor(call.orig, i, j)
          /\ ~TextIsBlank(call.orig, i)
    /\ HasImageMarkup(md(call.orig, 1))
    /\ Images(soup.nodes) = {}
    /\ get_text(soup.nodes, 1) # <<>>

(***************************************************************************)
(* C11                                                                     *)
(***************************************************************************)
Contains(str, sub) ==
    \E i \in 0..(Len(str) - Len(sub)) : SubSeq(str, i + 1, i + Len(sub)) = sub

\* the content as it was when the last edit of call.done began
BeforeLastEdit ==
    ApplyOps(call.orig, SubSeq(call.done, 1, Len(call.done) - 1), options)

\* the Markdown fetch_content returns for the content as it now is
EditedMarkdown == convert_to_markdown(soup.nodes, 1, <<"t">>, NoUrl, options)

\* C11: with no_links set, after remove_links no <a> is left under the
\* content, nested anchors included, the rendered text of the content is what
\* it was, and for every anchor that had visible text the text is in the
\* Markdown while no "](" followed by the anchor's href is.
C11_NoLinksKeepsText ==
    (options.no_links /\ call.done # <<>> /\ Last(call.done) = "links") =>
        /\ pc = "edit"
        /\ Anchors(soup.nodes) = {}
        /\ get_text(soup.nodes, 1) = get_text(BeforeLastEdit, 1)
        /\ \A j \in Anchors(BeforeLastEdit) :
              ~TextIsBlank(BeforeLastEdit, j) =>
                 /\ Contains(NonWhitespace(EditedMarkdown),
                             NonWhitespace(get_text(BeforeLastEdit, j)))
                 /\ BeforeLastEdit[j].has_href =>
                       ~Contains(EditedMarkdown,
                                 <<"]", "(">> \o UrlStr(BeforeLastEdit[j].href))

\* an anchor with an href and visible text, nested in another anchor, was
\* replaced: the Markdown of the content before held its link markup
C11_Witness ==
    /\ pc = "edit"
    /\ options.no_links
    /\ call.done = <<"links">>
    /\ \E i, j \in Anchors(call.orig) :
          /\ IsAncestor(call.orig, i, j)
          /\ call.orig[j].has_href
          /\ ~TextIsBlank(call.orig, j)
          /\ Contains(md(call.orig, 1), <<"]", "(">> \o UrlStr(call.orig[j].href))
    /\ Anchors(soup.nodes) = {}
    /\ Contains(EditedMarkdown, <<"w">>)

(***************************************************************************)
(* html_to_markdown on its own: the tidying of whatever text the converter  *)
(* returned, as fetch_content calls it                                     *)
(***************************************************************************)
ConvertedLines ==
    { <<>>,
      <<" ">>,
      <<"w">>,
      <<"#", " ", "t">>,
      <<"#", "#", " ", "w">>,
      <<"#", "#", "#", " ", "w">>,
      <<"#", "#", "#", "#", " ", "w">>,
      <<"#", "#", "w">> }

\* the texts the converter may return: the empty text and up to MaxMdLines lines
ConvertedTexts ==
    {<<>>} \cup
    {JoinLines(ls) : ls \in UNION {[1..n -> ConvertedLines] : n \in 1..MaxMdLines}}

HeadingSpaceValues ==
    { <<>>, <<"2", ",", "3">>, <<"a", "l", "l">>, <<"1">> }

InitMarkdown ==
    /\ call \in [converted : ConvertedTexts, url : {Ua}]
    /\ title \in {<<>>, <<"t">>}
    /\ options \in {[DefaultOptions EXCEPT !.prepend_source_link = p,
                                            !.extra_heading_space = h] :
                      p \in BOOLEAN, h \in HeadingSpaceValues}
    /\ markdown = <<>>
    /\ ret = <<>>
    /\ pc = "convert"
    /\ soup = NoSoup /\ content = 0
    /\ BatchIdle /\ DiskIdle

\* fetch_content, lines 428-433, on the text the converter returned
HtmlToMarkdown ==
    /\ pc = "convert"
    /\ markdown' = html_to_markdown(call.converted, title,
                        IF options.prepend_source_link THEN call.url ELSE NoUrl,
                        options)
    /\ pc' = "converted"
    /\ UNCHANGED <<options, batchVars, soup, content, title, diskVars, callVars>>

NextMarkdown == HtmlToMarkdown

SpecMarkdown == InitMarkdown /\ [][NextMarkdown]_vars

(***************************************************************************)
(* C12                                                                     *)
(***************************************************************************)
\* C12: when extra_heading_space is not set, the Markdown returned holds no
\* run of three or more consecutive newline characters, whatever the title,
\* the source line and the text the converter returned.
C12_NoTripleNewline ==
    (pc = "converted" /\ options.extra_heading_space = <<>>) =>
        ~Contains(markdown, <<"\n", "\n", "\n">>)

(***************************************************************************)
(* C13                                                                     *)
(***************************************************************************)
\* the Markdown without the Source line and the blank line after it
Body(text) ==
    IF text # <<>> /\ text[1] = "Source: <"
    THEN SubSeq(text, Min({i \in 1..Len(text) : text[i] = "\n"}) + 2, Len(text))
    ELSE text

BodyLines == Split(Body(markdown), "\n")

\* the level of a heading line, 0 for any other line
HeadingLevel(line) ==
    IF \E l \in 1..6 : StartsWith(line, HeadingMarker(l))
    THEN CHOOSE l \in 1..6 : StartsWith(line, HeadingMarker(l))
    ELSE 0

\* the number of blank lines that stand directly before line i
BlankBefore(lines, i) ==
    LET solid == {k \in 1..(i - 1) : ~IsBlank(lines[k])}
    IN  IF solid = {} THEN i - 1 ELSE i - 1 - Max(solid)

Padded == pc = "converted" /\ markdown # <<>> /\ options.extra_heading_space # <<>>

\* C13 as stated: with a level set L configured, a heading line other than
\* the first line is preceded by exactly 3 blank lines if and only if its
\* level is in L.
C13_ExactlyThreeBlankLines ==
    Padded =>
        LET lines  == BodyLines
            levels == HeadingLevels(options.extra_heading_space)
        IN  \A i \in 2..Len(lines) :
                HeadingLevel(lines[i]) # 0 =>
                   (HeadingLevel(lines[i]) \in levels
                       <=> BlankBefore(lines, i) = 3)

\* C13 amended: a non-blank line other than the first line is preceded by at
\* least 3 blank lines if it is a heading line of a level in L, the 3 lines
\* of the padding coming after the blank lines already there, and by fewer
\* than 3 otherwise.
C13_AtLeastThreeBlankLines ==
    Padded =>
        LET lines  == BodyLines
            levels == HeadingLevels(options.extra_heading_space)
        IN  \A i \in 2..Len(lines) :
                ~IsBlank(lines[i]) =>
                   (HeadingLevel(lines[i]) \in levels
                       <=> BlankBefore(lines, i) >= 3)

\* levels 2 and 3 configured: a "## " line that followed a blank line now has
\* four blank lines before it, a "### " line that followed text has three,
\* and a "#### " line of the same text has none
C13_Witness ==
    /\ Padded
    /\ options.extra_heading_space = <<"2", ",", "3">>
    /\ LET lines == BodyLines
       IN  /\ \E i \in 2..Len(lines) :
                 HeadingLevel(lines[i]) = 2 /\ BlankBefore(lines, i) = 4
           /\ \E j \in 2..Len(lines) :
                 HeadingLevel(lines[j]) = 3 /\ BlankBefore(lines, j) = 3
           /\ \E k \in 2..Len(lines) :
                 HeadingLevel(lines[k]) = 4 /\ BlankBefore(lines, k) = 0

(***************************************************************************)
(* C15                                                                     *)
(***************************************************************************)
TitleStr == <<"#", " ">> \o title \o <<"\n", "\n">>

TitleLine == <<"#", " ">> \o title

\* the number of lines of a text that are the title line
TitleLineCount(text) ==
    LET lines == Split(text, "\n")
    IN  Cardinality({i \in 1..Len(lines) : lines[i] = TitleLine})

\* C15: for a page with a title the Markdown, its Source line apart, begins
\* with the line "# title" and a blank line; the title line is prepended
\* exactly when the converted text does not begin with "# title\n\n", so a
\* text that began with it has as many title lines after as before, and any
\* other text one more.
C15_TitlePrependedOnce ==
    (pc = "converted" /\ markdown # <<>> /\ title # <<>>) =>
        /\ StartsWith(Body(markdown), TitleStr)
        /\ TitleLineCount(Body(markdown)) =
              IF StartsWith(call.converted, TitleStr)
              THEN TitleLineCount(call.converted)
              ELSE TitleLineCount(call.converted) + 1

\* the converter's text began with the title heading and a blank line: the
\* Markdown holds the title line once
C15_Witness ==
    /\ pc = "converted"
    /\ title = <<"t">>
    /\ StartsWith(call.converted, TitleStr)
    /\ Len(call.converted) > Len(TitleStr)
    /\ StartsWith(Body(markdown), TitleStr)
    /\ TitleLineCount(Body(markdown)) = 1

(***************************************************************************)
(* C16                                                                     *)
(***************************************************************************)
SourceStr == <<"Source: <">> \o UrlStr(call.url) \o <<">", "\n", "\n">>

\* C16: the Markdown begins with "Source: <url>" and a blank line if and
\* only if prepend_source_link is set and the conversion returned text; the
\* rest is then the Markdown the same page gets without the source line, so
\* the title line comes directly after the source line, unpadded.
C16_SourceLineFirst ==
    pc = "converted" =>
        /\ StartsWith(markdown, SourceStr)
              <=> (options.prepend_source_link /\ call.converted # <<>>)
        /\ StartsWith(markdown, SourceStr) =>
              /\ SubSeq(markdown, Len(SourceStr) + 1, Len(markdown)) =
                    html_to_markdown(call.converted, title, NoUrl, options)
              /\ title # <<>> =>
                    StartsWith(markdown, SourceStr \o TitleLine \o <<"\n">>)

\* source line, title and padding of level 1 headings together: the title
\* line stands directly under the source line while a later "# " line of
\* the text was padded
C16_Witness ==
    /\ pc = "converted"
    /\ options.prepend_source_link
    /\ 1 \in HeadingLevels(options.extra_heading_space)
    /\ options.extra_heading_space # <<>>
    /\ title = <<"t">>
    /\ StartsWith(markdown, SourceStr \o TitleStr)
    /\ Contains(markdown, <<"\n", "\n", "\n", "\n", "#", " ", "t">>)

(***************************************************************************)
(* add_newlines_before_headings on its own, over the values the option     *)
(* extra_heading_space can hold                                            *)
(***************************************************************************)
LevelChars == {"2", "7", ",", " ", "x", "-"}

LevelStrings ==
    {<<"a", "l", "l">>} \cup UNION {[1..n -> LevelChars] : n \in 0..MaxLevelLen}

\* a string, or what a YAML or JSON settings file can hold instead of one
HeadingSpaceSettings ==
    {[kind |-> "str", str |-> x] : x \in LevelStrings} \cup
    {[kind |-> "int", str |-> <<>>], [kind |-> "list", str |-> <<>>]}

PaddingTexts ==
    { <<"w">>,
      <<"#", " ", "t", "\n", "#", "#", " ", "w">>,
      <<"w", "\n", "#", "#", " ", "w", "\n", "#", " ", "w">> }

InitPadding ==
    /\ call \in [value : HeadingSpaceSettings, text : PaddingTexts]
    /\ ret = <<>>
    /\ pc = "pad"
    /\ options = DefaultOptions
    /\ soup = NoSoup /\ content = 0
    /\ BatchIdle /\ PageIdle /\ DiskIdle

\* add_newlines_before_headings(markdown): str.split on a value that is not
\* a string raises AttributeError, which the except ValueError lets through
AddNewlinesBeforeHeadings ==
    /\ pc = "pad"
    /\ IF call.value.kind = "str"
       THEN /\ ret' = [raised |-> FALSE,
                       levels |-> HeadingLevels(call.value.str),
                       text   |-> add_newlines_before_headings(call.text,
                                     [options EXCEPT !.extra_heading_space =
                                                        call.value.str])]
            /\ pc' = "padded"
       ELSE /\ ret' = [raised |-> TRUE, levels |-> {}, text |-> <<>>]
            /\ pc' = "crashed"
    /\ UNCHANGED <<options, call, batchVars, soup, content, pageVars, diskVars>>

NextPadding == AddNewlinesBeforeHeadings

SpecPadding == InitPadding /\ [][NextPadding]_vars

(***************************************************************************)
(* C14                                                                     *)
(***************************************************************************)
\* the items of a comma-separated value that are not blank, stripped
ListedItems(str) == {Strip(x) : x \in Range(Split(str, ","))} \ {<<>>}

\* C14: "all" selects the levels 1-6; a comma-separated string whose items
\* are integers selects those of them that lie in 1-6; any other value, a
\* value that is no string included, selects 1-6 and nothing is raised; and
\* with an empty level set the text is returned unchanged.
C14_HeadingLevelParsing ==
    pc # "pad" =>
        /\ ~ret.raised
        /\ ret.levels =
              IF call.value.kind # "str" THEN 1..6
              ELSE IF call.value.str = <<"a", "l", "l">> THEN 1..6
              ELSE IF \A x \in ListedItems(call.value.str) : IsInt(x)
                   THEN {IntValue(x) : x \in ListedItems(call.value.str)} \cap (1..6)
                   ELSE 1..6
        /\ ret.levels = {} => ret.text = call.text

(***************************************************************************)
(* content_to_url_list on its own: the URL list of site mode                *)
(***************************************************************************)
\* fnmatch.fnmatch(name, pat) on a case-sensitive file system: "*" stands
\* for any run of characters, "?" for one
RECURSIVE fnmatch(_, _)
fnmatch(name, pat) ==
    IF pat = <<>> THEN name = <<>>
    ELSE IF Head(pat) = "*"
         THEN fnmatch(name, Tail(pat)) \/ (name # <<>> /\ fnmatch(Tail(name), pat))
    ELSE IF Head(pat) = "?"
         THEN name # <<>> /\ fnmatch(Tail(name), Tail(pat))
    ELSE name # <<>> /\ Head(name) = Head(pat) /\ fnmatch(Tail(name), Tail(pat))

\* url_path.split("/")[-1]
PageName(url_path) == Last(Split(url_path, "/"))

Excluded(url_path, opts) ==
    \E k \in 1..Len(opts.exclude_pages) :
        fnmatch(PageName(url_path), opts.exclude_pages[k])

\* the loop of content_to_url_list over the anchors still to visit
RECURSIVE UrlListFrom(_, _, _, _, _)
UrlListFrom(nodes, anchors, site_root, opts, urls) ==
    IF anchors = <<>> THEN [raised |-> FALSE, url_list |-> urls]
    ELSE LET anchor == nodes[Head(anchors)]
         IN  IF ~anchor.has_href
             THEN [raised |-> TRUE, url_list |-> <<>>]
             ELSE UrlListFrom(nodes, Tail(anchors), site_root, opts,
                     IF Excluded(UrlPath(anchor.href), opts)
                     THEN urls
                     ELSE Append(urls, site_root \o UrlPath(anchor.href)))

\* MdScraper.content_to_url_list
content_to_url_list(nodes, c, site_root, opts) ==
    UrlListFrom(nodes, find_all(nodes, c, "a"), site_root, opts, <<>>)

Page1 == <<"/", "page1.html">>

ExcludedPage == <<"/", "excluded-page.html">>

IgnoredPage == <<"/", "ignore-this-page", "-x.html">>

SiteHrefs ==
    { Href(Page1),
      Href(ExcludedPage),
      Href(IgnoredPage),
      [base |-> "http://o", path |-> Page1, rest |-> "?q#f"],
      Href(ExcludedPage \o Page1),
      Href(<<"/", "ignore-this-page", "/">>) }

\* the anchors of a site page: with one of the hrefs, or without href
SiteAnchors == {A(h, 1) : h \in SiteHrefs} \cup {E("a", 1)}

SitePages ==
    {UnderContent(d) : d \in UNION {[1..n -> SiteAnchors] : n \in 0..MaxAnchors}}

ExcludePagesValues ==
    { <<>>,
      << <<"excluded-page.html">>, <<"ignore-this-page", "*">> >>,
      << <<"*">> >>,
      << <<"page1.html">> >>,
      << <<"?">> >> }

SiteRoot == <<"http://h">>

InitUrlList ==
    /\ soup \in {Parsed(d) : d \in SitePages}
    /\ content = 1
    /\ options \in {[DefaultOptions EXCEPT !.exclude_pages = x] :
                      x \in ExcludePagesValues}
    /\ call = [site_root |-> SiteRoot]
    /\ ret = <<>>
    /\ pc = "list"
    /\ BatchIdle /\ PageIdle /\ DiskIdle

ContentToUrlList ==
    /\ pc = "list"
    /\ ret' = content_to_url_list(soup.nodes, content, call.site_root, options)
    /\ pc' = IF ret'.raised THEN "crashed" ELSE "listed"
    /\ UNCHANGED <<options, call, soup, content, batchVars, pageVars, diskVars>>

NextUrlList == ContentToUrlList

SpecUrlList == InitUrlList /\ [][NextUrlList]_vars

(***************************************************************************)
(* C17                                                                     *)
(***************************************************************************)
\* the paths of the anchors of the page, in document order; an anchor
\* without href has none
AnchorPaths ==
    LET as == find_all(soup.nodes, 1, "a")
        ps == [k \in 1..Len(as) |->
                 IF soup.nodes[as[k]].has_href
                 THEN <<UrlPath(soup.nodes[as[k]].href)>> ELSE <<>>]
    IN  Flatten(ps)

\* C17: content_to_url_list returns, in document order and with repetitions,
\* site_root + path for each anchor whose last path segment matches no
\* exclude_pages pattern and nothing for the others, so nothing of the
\* href but its path shows in the result; for /page1.html,
\* /excluded-page.html and /ignore-this-page-x.html under the patterns
\* excluded-page.html and ignore-this-page* it returns root + /page1.html.
C17_UrlListFiltered ==
    pc # "list" =>
        /\ ~ret.raised
        /\ LET kept == SelectSeq(AnchorPaths,
                           LAMBDA path : ~\E k \in 1..Len(options.exclude_pages) :
                               fnmatch(Last(Split(path, "/")), options.exclude_pages[k]))
           IN  ret.url_list = [k \in 1..Len(kept) |-> SiteRoot \o kept[k]]
        /\ (/\ AnchorPaths = <<Page1, ExcludedPage, IgnoredPage>>
            /\ options.exclude_pages = << <<"excluded-page.html">>,
                                          <<"ignore-this-page", "*">> >>)
              => ret.url_list = <<SiteRoot \o Page1>>

(***************************************************************************)
(* Site mode: process_site_url, from the site page to the batch of its links *)
(***************************************************************************)
Us == Http(<<"/", "s">>)
Ut == Http(<<"/", "t">>)

\* <div class="content"><a href="/d/a">..<a href="/n">..<a href="/e">..</div>
PageSite ==
    << ContentDiv, A(Href(<<"/", "d", "/", "a">>), 2),
       A(Href(<<"/", "n">>), 2), A(Href(<<"/", "e">>), 2) >>

\* <article><a href="/d/b?q">..<a href="/i">..</article>
PageSiteArticle ==
    << E("article", 1),
       A([base |-> "http://o", path |-> <<"/", "d", "/", "b">>, rest |-> "?q"], 2),
       A(Href(<<"/", "i">>), 2) >>

\* what fetch_webpage returns for the site URLs and the URLs they link to
SiteWeb(url) ==
    CASE url = Us -> Parsed(PageSite)
      [] url = Ut -> Parsed(PageSiteArticle)
      [] OTHER    -> Web(url)

SiteUrls == {Us, Ut, Ue, Un, Uk}

\* the URL a string of content_to_url_list names: site_root, then the path
UrlOf(str) == [base |-> Head(str), path |-> Tail(str), rest |-> ""]

InitSite ==
    /\ options \in {[o EXCEPT !.exclude_pages = x] :
                      o \in EditOptions, x \in {<<>>, << <<"n">> >>, << <<"*">> >>}}
    /\ call \in [output_dir : {<<>>, <<"o">>}, site_url : SiteUrls]
    /\ url_list = <<>>
    /\ idx = 0 /\ success_count = 0 /\ failure_count = 0
    /\ soup = NoSoup /\ content = 0
    /\ PageIdle /\ DiskIdle
    /\ ret = FALSE
    /\ pc = "site"

\* process_site_url, line 779: fetch_webpage(site_url)
SiteFetchWebpage ==
    /\ pc = "site"
    /\ soup' = SiteWeb(call.site_url)
    /\ pc' = "site_locate"
    /\ UNCHANGED <<options, batchVars, content, pageVars, diskVars, callVars>>

\* process_site_url, line 780: extract_page_content(soup)
SiteExtractPageContent ==
    /\ pc = "site_locate"
    /\ content' = find_content_container(soup, options)
    /\ files' = IF options.debug /\ content' = 0
                THEN WriteFile(files, DebugHtml, <<"str(soup)">>)
                ELSE files
    /\ pc' = "site_list"
    /\ UNCHANGED <<options, batchVars, soup, pageVars, dirs, log, callVars>>

\* process_site_url, lines 782-785: content_to_url_list(content, site_root),
\* whose content.find_all raises AttributeError when content is None, then
\* process_url_list on the list
SiteContentToUrlList ==
    /\ pc = "site_list"
    /\ LET r == IF content = 0 THEN [raised |-> TRUE, url_list |-> <<>>]
                ELSE content_to_url_list(soup.nodes, content,
                                         <<call.site_url.base>>, options)
       IN  /\ url_list' = [k \in 1..Len(r.url_list) |-> UrlOf(r.url_list[k])]
           /\ pc' = IF r.raised THEN "crashed" ELSE "start"
    /\ UNCHANGED <<options, idx, success_count, failure_count, soup, content,
                   pageVars, diskVars, callVars>>

NextSite ==
    \/ SiteFetchWebpage
    \/ SiteExtractPageContent
    \/ SiteContentToUrlList
    \/ ProcessUrlList
    \/ FetchWebpage
    \/ ExtractPageContent
    \/ ProcessExcludeSelectors
    \/ RemoveImages
    \/ EditLinks
    \/ ExtractPageTitle
    \/ ConvertToMarkdown
    \/ SaveMarkdown
    \/ CountResult
    \/ PrintSummary

SpecSite == InitSite /\ [][NextSite]_vars

(***************************************************************************)
(* C21                                                                     *)
(***************************************************************************)
\* the site page cannot be fetched, or no content container is found on it
SiteNotFound == find_content_container(SiteWeb(call.site_url), options) = 0

\* C21: when the site page cannot be fetched or holds no content container,
\* process_site_url raises nothing: once the page has been looked at, the
\* run goes on to an empty batch, which ends with no URL processed.
C21_SiteNotFoundIsNormal ==
    (SiteNotFound /\ pc \notin {"site", "site_locate", "site_list"}) =>
        /\ pc \in {"start", "summary", "done"}
        /\ url_list = <<>>
        /\ success_count = 0 /\ failure_count = 0

(***************************************************************************)
(* Command line: main and scraper_cli, from the parsed arguments to the    *)
(* exit of the process                                                     *)
(***************************************************************************)
MaxFlags == 2

\* the options of the command line followed here
CliFlags == {"output", "outdir", "no_images", "root_url", "debug", "verbose"}

\* cli.py, lines 20-49: what parse_args stores for a flag that is not given
CliDefaults ==
    [output |-> <<"$TITLE">>, outdir |-> <<>>, no_images |-> FALSE,
     root_url |-> NoneUrl, debug |-> FALSE, verbose |-> 0]

\* the values given to the flags on the command lines
CliGiven ==
    [output : {TITLE, URL, <<"f">>}, outdir : {<<>>, <<"o">>}, no_images : {TRUE},
     root_url : {Http(<<"/", "d">>)}, debug : {TRUE}, verbose : {1}]

\* parse_args: the given flags hold their values, the others the defaults
CommandLines ==
    {[given |-> g, args |-> [f \in CliFlags |-> IF f \in g THEN v[f] ELSE CliDefaults[f]]] :
        g \in {x \in SUBSET CliFlags : Cardinality(x) <= MaxFlags}, v \in CliGiven}

NoSettings == [kind |-> "none", keys |-> {}, values |-> CliDefaults]

\* load_config_file: the content of the settings file, a mapping from option
\* names to values or (kind "other") something that is no mapping
SettingsFiles ==
    { NoSettings,
      [kind |-> "other", keys |-> {}, values |-> CliDefaults],
      [kind |-> "mapping", keys |-> {"output"},
       values |-> [CliDefaults EXCEPT !.output = URL]],
      [kind |-> "mapping", keys |-> {"outdir", "no_images"},
       values |-> [CliDefaults EXCEPT !.outdir = <<"p">>, !.no_images = TRUE]],
      [kind |-> "mapping", keys |-> {"root_url", "verbose"},
       values |-> [CliDefaults EXCEPT !.root_url = Http(<<"/", "d">>), !.verbose = 2]] }

\* the target of the run: --url, --file (the lines of the file) or --site
CliTargets ==
    {[mode |-> "url", url |-> u, file |-> <<>>, site_url |-> NoUrl] : u \in {Ua, Ue, Ui}}
    \cup {[mode |-> "file", url |-> NoUrl, file |-> l, site_url |-> NoUrl] :
              l \in {<<>>, <<Ua, Ue>>}}
    \cup {[mode |-> "site", url |-> NoUrl, file |-> <<>>, site_url |-> Us]}

\* post_options_update: with debug, a verbose of 0 becomes 9
post_options_update(opts) ==
    IF opts.debug /\ opts.verbose = 0 THEN [opts EXCEPT !.verbose = 9] ELSE opts

\* MdScraper(**options): the defaults updated with every parsed argument
set_options(args) ==
    post_options_update(
        [DefaultOptions EXCEPT !.output = args.output, !.outdir = args.outdir,
                               !.no_images = args.no_images,
                               !.root_url = args.root_url, !.debug = args.debug,
                               !.verbose = args.verbose])

\* process_config_file, lines 186-193: a key of the file replaces the option
\* that still equals its default value
process_config_file(opts, file) ==
    IF file.kind # "mapping" THEN opts
    ELSE post_options_update(
           [f \in DOMAIN opts |->
               IF f \in file.keys /\ opts[f] = DefaultOptions[f]
               THEN file.values[f] ELSE opts[f]])

InitCli ==
    /\ \E t \in CliTargets, c \in CommandLines, s \in SettingsFiles, b \in BOOLEAN :
          call = [output_dir |-> <<>>, mode |-> t.mode, url |-> t.url,
                  file |-> t.file, site_url |-> t.site_url, given |-> c.given,
                  args |-> c.args, settings |-> s, save_settings |-> b]
    /\ options = DefaultOptions
    /\ BatchIdle
    /\ soup = NoSoup /\ content = 0
    /\ PageIdle /\ DiskIdle
    /\ ret = FALSE
    /\ pc = "cli"

\* scraper_cli, line 907: ms = MdScraper(**options)
CliConstruct ==
    /\ pc = "cli"
    /\ options' = set_options(call.args)
    /\ pc' = "cli_settings"
    /\ UNCHANGED <<batchVars, soup, content, pageVars, diskVars, callVars>>

\* scraper_cli, lines 909-910
CliProcessConfigFile ==
    /\ pc = "cli_settings"
    /\ options' = IF call.settings.kind = "none" THEN options
                  ELSE process_config_file(options, call.settings)
    /\ pc' = "cli_run"
    /\ UNCHANGED <<batchVars, soup, content, pageVars, diskVars, callVars>>

\* scraper_cli, lines 912-913: save_settings; open() fails, and the error is
\* printed, when the output directory does not exist
CliSaveSettings ==
    /\ pc = "cli_run"
    /\ call.save_settings
    /\ files' = IF options.outdir = <<>> \/ options.outdir \in dirs
                THEN WriteFile(files, PathJoin(options.outdir, <<"mdscrapper.yaml">>),
                               <<"settings">>)
                ELSE files
    /\ pc' = "exit"
    /\ UNCHANGED <<options, batchVars, soup, content, pageVars, dirs, log, callVars>>

\* scraper_cli, lines 915-920: the mode of the run
CliDispatch ==
    /\ pc = "cli_run"
    /\ ~call.save_settings
    /\ CASE call.mode = "url"  -> url_list' = <<call.url>> /\ idx' = 1 /\ pc' = "fetch"
         [] call.mode = "file" -> url_list' = call.file /\ idx' = 0 /\ pc' = "start"
         [] OTHER              -> url_list' = <<>> /\ idx' = 0 /\ pc' = "site"
    /\ UNCHANGED <<options, success_count, failure_count, soup, content, pageVars,
                   diskVars, callVars>>

\* the loop of process_url_list, in the modes that run it
CliCountResult == call.mode # "url" /\ CountResult

\* scraper_cli returns, dropping what process_single_url returned, and main
\* returns after it: cli.py, lines 51-52
CliExit ==
    /\ pc = "done" \/ (pc = "count" /\ call.mode = "url")
    /\ pc' = "exit"
    /\ UNCHANGED <<options, batchVars, soup, content, pageVars, diskVars, callVars>>

NextCli ==
    \/ CliConstruct
    \/ CliProcessConfigFile
    \/ CliSaveSettings
    \/ CliDispatch
    \/ SiteFetchWebpage
    \/ SiteExtractPageContent
    \/ SiteContentToUrlList
    \/ ProcessUrlList
    \/ FetchWebpage
    \/ ExtractPageContent
    \/ ProcessExcludeSelectors
    \/ RemoveImages
    \/ EditLinks
    \/ ExtractPageTitle
    \/ ConvertToMarkdown
    \/ SaveMarkdown
    \/ CliCountResult
    \/ PrintSummary
    \/ CliExit

SpecCli == InitCli /\ [][NextCli]_vars

\* the exit status of the process: main calls sys.exit nowhere, so the status
\* is 0 unless an exception ends the interpreter
ExitStatus == IF pc = "crashed" THEN 1 ELSE 0

(***************************************************************************)
(* C22                                                                     *)
(***************************************************************************)
\* C22: in single-URL mode the exit status of the process is zero when the
\* file was written and non-zero when the URL ended in Failure.
C22_ExitStatusTellsOutcome ==
    (pc = "exit" /\ call.mode = "url" /\ ~call.save_settings) =>
        (ExitStatus = 0 <=> ret)

(***************************************************************************)
(* C23                                                                     *)
(***************************************************************************)
\* C23: once the settings file has been processed, every option holds the
\* value given on the command line if one was given, otherwise the value of
\* the settings file if the file has the option, otherwise the built-in
\* default.
C23_OptionPrecedence ==
    (pc = "cli_run" /\ call.settings.kind = "mapping") =>
        \A f \in CliFlags :
            options[f] = IF f \in call.given THEN call.args[f]
                         ELSE IF f \in call.settings.keys
                              THEN call.settings.values[f]
                              ELSE DefaultOptions[f]

(***************************************************************************)
(* C26                                                                     *)
(***************************************************************************)
\* C26: a single-URL run whose command line has no --output (and no settings
\* file) saves the Markdown under the name the %TITLE strategy generates.
C26_NoOutputFlagMeansTitle ==
    (/\ pc = "exit" /\ call.mode = "url" /\ ~call.save_settings /\ ret
     /\ "output" \notin call.given /\ call.settings.kind = "none") =>
        \E f \in files :
            f.path = OutputPath(markdown, call.url, TITLE, options)

(***************************************************************************)
(* The newline clean-up of html_to_markdown applied to every text of the   *)
(* bounds                                                                  *)
(***************************************************************************)
MaxTextLen == 5

\* html_to_markdown, lines 345-348: the two substitutions of the clean-up
CollapseStep(str) == CollapseBlankLines(CollapseNewlines(str))

CollapseChars == {"a", " ", "\n"}

CollapseTexts == UNION {[1..n -> CollapseChars] : n \in 0..MaxTextLen}

InitCollapse ==
    /\ markdown \in CollapseTexts
    /\ call = markdown
    /\ ret = <<>>
    /\ options = DefaultOptions
    /\ BatchIdle
    /\ soup = NoSoup /\ content = 0
    /\ title = <<>>
    /\ DiskIdle
    /\ pc = "raw"

\* lines 345-348, on the text and then on its own result; ret keeps the text
\* the step was given
NewlineCollapse ==
    /\ pc \in {"raw", "once"}
    /\ ret' = markdown
    /\ markdown' = CollapseStep(markdown)
    /\ pc' = IF pc = "raw" THEN "once" ELSE "twice"
    /\ UNCHANGED <<options, batchVars, soup, content, title, diskVars, call>>

\* line 355: the second re.sub(r'\n{3,}') of the branch without
\* extra_heading_space
SecondPass ==
    /\ pc = "once"
    /\ ret' = markdown
    /\ markdown' = CollapseNewlines(markdown)
    /\ pc' = "passed"
    /\ UNCHANGED <<options, batchVars, soup, content, title, diskVars, call>>

NextCollapse == NewlineCollapse \/ SecondPass

SpecCollapse == InitCollapse /\ [][NextCollapse]_vars

(***************************************************************************)
(* C24                                                                     *)
(***************************************************************************)
\* C24: the newline clean-up applied to its own output returns that output,
\* and the second pass of the 3-newline substitution after it changes
\* nothing.
C24_CollapseIdempotent ==
    pc \in {"twice", "passed"} => markdown = ret

\* a text with a blank line made of spaces between newlines, which the first
\* clean-up shortened, has been through the clean-up twice
C24_Witness ==
    /\ pc = "twice"
    /\ \E i \in 1..Len(call) - 2 :
          call[i] = "\n" /\ call[i + 1] = " " /\ call[i + 2] = "\n"
    /\ Len(markdown) < Len(call)
    /\ markdown = ret

(***************************************************************************)
(* process_single_url run on the same URL without debug and then with it   *)
(***************************************************************************)
NoOutcome == [ret |-> FALSE, content |-> 0, markdown |-> <<>>, files |-> {}]

\* the option sets of the single runs: those of the batches and one that
\* excludes the headings of the content
SingleOptions ==
    EditOptions \cup
    {[DefaultOptions EXCEPT !.exclude_selectors = <<Selector("h1", "")>>]}

InitDebug ==
    /\ options \in {[o EXCEPT !.output = f, !.outdir = d] :
                      o \in SingleOptions, f \in OutputNames, d \in {<<>>, <<"o">>}}
    /\ \E u \in Urls \cup {Uh, Uj} : url_list = <<u>>
    /\ idx = 1
    /\ success_count = 0 /\ failure_count = 0
    /\ soup = NoSoup /\ content = 0
    /\ PageIdle /\ DiskIdle
    /\ call = NoOutcome
    /\ ret = FALSE
    /\ pc = "fetch"

\* process_single_url has returned: its outcome is kept, the files are put
\* back, and the scraper is given debug (set_options, which ends with
\* post_options_update) for the second run on the URL
DebugRerun ==
    /\ pc = "count"
    /\ ~options.debug
    /\ call' = [ret |-> ret, content |-> content, markdown |-> markdown,
                files |-> files]
    /\ options' = post_options_update([options EXCEPT !.debug = TRUE])
    /\ soup' = NoSoup /\ content' = 0
    /\ title' = <<>> /\ markdown' = <<>>
    /\ files' = {} /\ dirs' = {}
    /\ pc' = "fetch"
    /\ UNCHANGED <<batchVars, log, ret>>

NextDebug ==
    \/ FetchWebpage
    \/ ExtractPageContent
    \/ ProcessExcludeSelectors
    \/ RemoveImages
    \/ EditLinks
    \/ ExtractPageTitle
    \/ ConvertToMarkdown
    \/ SaveMarkdown
    \/ DebugRerun

SpecDebug == InitDebug /\ [][NextDebug]_vars

(***************************************************************************)
(* C25                                                                     *)
(***************************************************************************)
\* C25: the run with debug selects the same content node, returns the same
\* result and writes the same Markdown to the same path as the run without
\* debug; only debug_html.html may come on top.
C25_DebugSameOutcome ==
    (pc = "count" /\ options.debug) =>
        /\ content = call.content
        /\ ret = call.ret
        /\ markdown = call.markdown
        /\ {f \in files : f.path # DebugHtml} = call.files

\* both runs of a page with a content container have written the Markdown
C25_Witness ==
    /\ pc = "count" /\ options.debug /\ options.verbose = 9
    /\ ret /\ content # 0
    /\ call.files # {} /\ files = call.files

(***************************************************************************)
(* C27                                                                     *)
(***************************************************************************)
\* the <a> elements under the content that have no href attribute
BareAnchors ==
    IF content = 0 THEN {}
    ELSE {i \in Descendants(soup.nodes, content) :
             soup.nodes[i].tag = "a" /\ ~soup.nodes[i].has_href}

\* C27: when make_urls_relative runs (no_links false, root_url set) on a
\* content that holds an <a> without href, it raises nothing, the pipeline
\* of the URL goes on to the title, and the anchor is left as it was.
C27_BareAnchorLeftAlone ==
    [][(/\ pc = "links" /\ ~options.no_links /\ UrlSet(options.root_url)
        /\ BareAnchors # {}) =>
           /\ pc' = "title"
           /\ \A i \in BareAnchors :
                 i <= Len(soup'.nodes) /\ soup'.nodes[i] = soup.nodes[i]]_vars

(***************************************************************************)
(* C28                                                                     *)
(***************************************************************************)
\* the first line of the Markdown that starts with "# ", without its first
\* two characters
AfterMarker ==
    LET line == Split(markdown, "\n")[Min(TitleLines(markdown))]
    IN  SubSeq(line, 3, Len(line))

\* C28: with %TITLE, the title the file is named after is the first line
\* starting with "# " with only those two leading characters removed, a
\* later "# " inside the title being kept; when no line starts with "# "
\* (a "## " line and the Source line do not count) there is no title and
\* the name comes from the URL.
C28_OnlyLeadingMarkerRemoved ==
    (pc = "count" /\ ret /\ options.output = TITLE) =>
        IF TitleLines(markdown) = {}
        THEN SavedPath = InDir(options.outdir, FromUrl)
        ELSE AfterMarker # <<>> =>
                SavedPath = InDir(options.outdir,
                               sanitize_filename(AfterMarker) \o <<".md">>)

(***************************************************************************)
(* C29                                                                     *)
(***************************************************************************)
\* the document of the URL in hand as it was fetched
Fetched == Web(url_list[idx])

\* the content node the locator finds in it
Located == find_content_container(Fetched, options)

\* the document after the three edits, in the order of _fetch_content
Edited ==
    LinkStep(ImageStep(process_exclude_selectors(Fetched.nodes, Located, options),
                       Located, options),
             Located, options).nodes

TagsOf(nodes, tag) == {j \in 1..Len(nodes) : nodes[j].tag = tag}

\* the first <h1> of the document, else its <title>, else "Webpage"
TitleIn(nodes) ==
    IF TagsOf(nodes, "h1") # {}
    THEN clean_text(get_text(nodes, Min(TagsOf(nodes, "h1"))))
    ELSE IF TagsOf(nodes, "title") # {}
    THEN clean_text(get_text(nodes, Min(TagsOf(nodes, "title"))))
    ELSE <<"Webpage">>

\* C29: in the pipeline of a URL no title is read before the edits are done;
\* the edits work on the node the locator found in the unedited document;
\* and the title step reads the document that the exclude selectors, the
\* image step and the link step have left: its first <h1>, else its <title>,
\* else "Webpage".
C29_TitleReadAfterEdits ==
    [][/\ pc \in {"fetch", "locate", "exclude", "images", "links"} => title' = <<>>
       /\ pc \in {"exclude", "images", "links"} => content = Located
       /\ pc = "title" => /\ soup.nodes = Edited
                          /\ title' = TitleIn(Edited)]_vars

\* the content of the page had an <h1> that the exclude selectors deleted,
\* and the title came from the <title> element
C29_Witness ==
    /\ pc = "convert"
    /\ \E j \in Descendants(Fetched.nodes, Located) : Fetched.nodes[j].tag = "h1"
    /\ TagsOf(soup.nodes, "h1") = {}
    /\ title = <<"W">>

(***************************************************************************)
(* C30                                                                     *)
(***************************************************************************)
\* the <div> elements that node i lies in
DivAncestors(nodes, i) ==
    {j \in 1..(i - 1) : nodes[j].tag = "div" /\ i \in Descendants(nodes, j)}

\* C30: when no name step and no <article> matches and the largest-div
\* fallback returns a div, that div lies in no other div.
C30_LargestDivNotNested ==
    (pc = "located" /\ soup.parsed /\ NoEarlierStep(soup.nodes) /\ content # 0) =>
        /\ soup.nodes[content].tag = "div"
        /\ DivAncestors(soup.nodes, content) = {}

\* a div that holds another div with the same text, which is not empty: the
\* fallback returned the outer one
C30_Witness ==
    /\ pc = "located" /\ soup.parsed /\ NoEarlierStep(soup.nodes)
    /\ content # 0
    /\ DivAncestors(soup.nodes, content) = {}
    /\ \E k \in Descendants(soup.nodes, content) :
          /\ soup.nodes[k].tag = "div"
          /\ TextLen(soup.nodes, k) > 0
          /\ TextLen(soup.nodes, k) = TextLen(soup.nodes, content)

(***************************************************************************)
(* get_relative_url_path applied to every href and root_url of the bounds  *)
(***************************************************************************)
PathChars == {"/", "d", "a"}

PathsUpTo(n) == UNION {[1..k -> PathChars] : k \in 0..n}

\* with a host in front a path is empty or begins with a slash, and without
\* one it does not begin with two slashes (urlparse would read a host there)
UrlsOver(paths) ==
    {u \in [base : {"", "http://h"}, path : paths, rest : {"", "?q"}] :
        /\ u.base # "" => (u.path = <<>> \/ u.path[1] = "/")
        /\ u.base = "" => ~StartsWith(u.path, <<"/", "/">>)}

InitRelUrl ==
    /\ options \in {[DefaultOptions EXCEPT !.root_url = r] :
                      r \in {u \in UrlsOver(PathsUpTo(MaxRootLen)) :
                                u.rest = "" /\ (u.base = "" => u.path = <<>>)}}
    /\ call \in [url : UrlsOver(PathsUpTo(MaxPathLen))]
    /\ ret = <<>>
    /\ pc = "call"
    /\ soup = NoSoup /\ content = 0
    /\ BatchIdle /\ PageIdle /\ DiskIdle

\* one call of get_relative_url_path(url)
GetRelativeUrlPath ==
    /\ pc = "call"
    /\ ret' = get_relative_url_path(call.url, options)
    /\ pc' = "returned"
    /\ UNCHANGED <<options, call, soup, content, batchVars, pageVars, diskVars>>

NextRelUrl == GetRelativeUrlPath

SpecRelUrl == InitRelUrl /\ [][NextRelUrl]_vars

(***************************************************************************)
(* C8                                                                      *)
(***************************************************************************)
\* C8: when the URL path begins with the (non-empty) path of root_url the
\* new href is the URL path without that leading prefix, later occurrences
\* of the root path being kept; otherwise the href is left as it was.
C8_OnlyLeadingPrefixStripped ==
    pc = "returned" =>
        LET root_path == UrlPath(options.root_url)
            url_path  == UrlPath(call.url)
        IN  IF UrlSet(options.root_url) /\ root_path # <<>>
               /\ StartsWith(url_path, root_path)
            THEN ret = [base |-> "", rest |-> "",
                        path |-> SubSeq(url_path, Len(root_path) + 1,
                                        Len(url_path))]
            ELSE ret = call.url

====
